---- MODULE Spec2Model ----
(***************************************************************************)
(* A model of the scoring, matching, AI-fallback, contact-extraction,      *)
(* request, file-parsing, saving, page and resume-builder code of          *)
(* ai_resume_analyzer_pro.                                                 *)
(*                                                                         *)
(* A text is never stored character by character where the code only       *)
(* counts or searches it: there a text is the record of the measurements   *)
(* the code takes of it (word count, number of lines, which keywords occur *)
(* as substrings, ...).  Where the code's result depends on the characters *)
(* themselves (the regular expressions of the contact extractor, the       *)
(* keyword sets of the job matcher) the text is a sequence of characters   *)
(* or of words.                                                            *)
(***************************************************************************)
EXTENDS Integers, Sequences, FiniteSets, TLC

VARIABLES
    component,        \* which entry point runs
    pc,               \* position inside the running handler
    text,             \* the resume text (measurements shared by all evaluators)
    scores,           \* category name -> what its evaluator returned
    result,           \* what the handler returned (NoResult before it returns)
    resume_text,      \* job matcher: the resume, a sequence of words
    job_description,  \* job matcher: the job description, a sequence of words
    hash_seed,        \* the string hash seed of the running interpreter
    second,           \* what the handler returned when it was run again
    use_ai,           \* AI callers: the use_ai argument
    model,            \* gemini_client.model: "connected", or "none" for None
    attempt,          \* _make_request: attempts that brought no text
    response,         \* what _make_request returned
    ai_analysis,      \* what the adapter returned to its caller
    raw_text,         \* contact extraction: the text, a sequence of characters
    planted,          \* the e-mail address and the phone number put in it
    now,              \* what time.time() returns, in seconds
    last_request_time,\* gemini_client.last_request_time
    request_count,    \* gemini_client.request_count
    outcome,          \* _make_request: how the latest attempt ended
    backoff,          \* _make_request: seconds slept after the latest attempt
    previous_call,    \* when generate_content was called the time before
    latest_call,      \* when generate_content was called the latest time
    uploaded_file,    \* parse_file: the uploaded file
    parser,           \* parse_file: the format parser that was entered
    tried,            \* _parse_txt: the encodings tried, in order
    store,            \* analytics: the rows of analysis_history
    store_health,     \* analytics: where the database fails, if it does
    analysis_data,    \* the page's computed analysis
    saved,            \* what save_analysis returned to the page, call by call
    parsed_data,      \* Job Matcher page: what parse_file returned in this run
    heap,             \* resume builder: the dicts and lists, by their identity
    user_data,        \* resume builder: the dict handed to the builder
    enhanced_data,    \* resume builder: the dict the builder returned
    experience_entries, \* st.session_state.experience_entries
    education_entries,  \* st.session_state.education_entries
    threads           \* rate limiter: each thread's position and locals

scorerVars == <<component, pc, text, scores, result>>
matchVars == <<resume_text, job_description, hash_seed, second>>

aiVars == <<use_ai, model, attempt, response, ai_analysis>>

contactVars == <<raw_text, planted>>

requestVars == <<now, last_request_time, request_count, outcome, backoff,
                 previous_call, latest_call>>

fileVars == <<uploaded_file, parser, tried>>

storeVars == <<store, store_health, analysis_data, saved>>

builderVars == <<heap, user_data, enhanced_data, experience_entries,
                 education_entries>>

pageVars == <<parsed_data, builderVars, threads>>

restVars == <<requestVars, fileVars, storeVars, pageVars>>

vars == <<scorerVars, matchVars, aiVars, contactVars, restVars>>

NoResult == [kind |-> "none"]

\* the request clock, the file and the store where a specification does not
\* use them
NoRequests ==
    /\ now = 0 /\ last_request_time = 0 /\ request_count = 0
    /\ outcome = "none" /\ backoff = 0
    /\ previous_call = -1 /\ latest_call = -1

NoFile == uploaded_file = NoResult /\ parser = "none" /\ tried = <<>>

NoStore ==
    /\ store = <<>> /\ store_health = "ok"
    /\ analysis_data = NoResult /\ saved = <<>>

\* the pages, the resume builder and the threads where a specification does
\* not use them
NoBuilder ==
    /\ heap = <<>> /\ user_data = 0 /\ enhanced_data = 0
    /\ experience_entries = <<>> /\ education_entries = <<>>

NoPages == parsed_data = NoResult /\ NoBuilder /\ threads = <<>>

(***************************************************************************)
(* Arithmetic helpers.                                                     *)
(***************************************************************************)
Max(a, b) == IF a >= b THEN a ELSE b
Min(a, b) == IF a <= b THEN a ELSE b

\* a round() that truncates
round_truncating(num, den) == num \div den

\* Python's round() of the non-negative rational num/den: nearest integer,
\* a tie goes to the even neighbour.
round(num, den) ==
    LET q == num \div den
        r == num % den
    IN  IF 2 * r < den THEN q
        ELSE IF 2 * r > den THEN q + 1
        ELSE IF q % 2 = 0 THEN q ELSE q + 1

\* Python's int() of the non-negative rational num/den: truncation.
int(num, den) == num \div den

RECURSIVE SumSeq(_)
SumSeq(s) == IF s = <<>> THEN 0 ELSE Head(s) + SumSeq(Tail(s))

\* the sequence s without the entries that are "" (an issue that did not fire)
RECURSIVE Compact(_)
Compact(s) ==
    IF s = <<>> THEN <<>>
    ELSE IF Head(s) = "" THEN Compact(Tail(s))
    ELSE <<Head(s)>> \o Compact(Tail(s))

(***************************************************************************)
(* The resume text.  words is len(text.split()); email and phone say       *)
(* whether the e-mail and the phone patterns match somewhere; sections is  *)
(* the set of the three header words that occur in text.lower().           *)
(***************************************************************************)
WordCounts == {0, 50, 450, 700, 1100}
SectionWords == {"experience", "education", "skills"}

Texts ==
    { t \in [words : WordCounts, email : BOOLEAN, phone : BOOLEAN,
             sections : SUBSET SectionWords] :
        t.words = 0 => (~t.email /\ ~t.phone /\ t.sections = {}) }

(***************************************************************************)
(* utils/ats_checker.py: class ATSChecker.                                 *)
(* Every _check_* takes the measurements the method takes of its text and  *)
(* returns the score with the list of issues (the feedback string is the   *)
(* score and the issues joined).                                           *)
(***************************************************************************)
scoring_categories ==
    [format_compatibility |-> 20, keyword_optimization |-> 25,
     contact_information |-> 15, section_organization |-> 20,
     length_optimization |-> 10, readability |-> 10]

\* the order in which _rule_based_analysis fills the scores dict
UtilsOrder ==
    <<"format_compatibility", "keyword_optimization", "contact_information",
      "section_organization", "length_optimization", "readability">>

\* t.table_chars: matches of the box-drawing class; t.special_chars: matches
\* of the symbol class; t.nonblank_lines: lines with line.strip()
_check_format_compatibility(t) ==
    LET p1 == t.table_chars > 0
        p2 == t.special_chars > 5
        p3 == t.nonblank_lines < 10
    IN  [score  |-> 100 - (IF p1 THEN 20 ELSE 0) - (IF p2 THEN 15 ELSE 0)
                        - (IF p3 THEN 10 ELSE 0),
         issues |-> Compact(<<
             IF p1 THEN "Contains table borders/special characters" ELSE "",
             IF p2 THEN "Too many special characters/symbols" ELSE "",
             IF p3 THEN "Very short content" ELSE "">>)]

\* t.keyword_count: how many of the 10 professional keywords occur;
\* t.action_verb_count: how many of the 11 action verbs occur
_check_keyword_optimization(t) ==
    LET few  == t.keyword_count < 3
        some == ~few /\ t.keyword_count < 5
        verb == t.action_verb_count < 3
    IN  [score  |-> 100 - (IF few THEN 30 ELSE IF some THEN 15 ELSE 0)
                        - (IF verb THEN 20 ELSE 0),
         issues |-> Compact(<<
             IF few THEN "Insufficient professional keywords"
             ELSE IF some THEN "Could use more industry keywords" ELSE "",
             IF verb THEN "Needs more strong action verbs" ELSE "">>)]

\* t.email, t.phone: the patterns match; t.linkedin: 'linkedin' occurs;
\* t.location: one of 'city', 'state', 'address', ',' occurs
_check_contact_information(t) ==
    [score  |-> 100 - (IF ~t.email THEN 40 ELSE 0) - (IF ~t.phone THEN 30 ELSE 0)
                    - (IF ~t.linkedin THEN 15 ELSE 0)
                    - (IF ~t.location THEN 15 ELSE 0),
     issues |-> Compact(<<
         IF ~t.email THEN "Missing email address" ELSE "",
         IF ~t.phone THEN "Missing phone number" ELSE "",
         IF ~t.linkedin THEN "Consider adding LinkedIn profile" ELSE "",
         IF ~t.location THEN "Consider adding location information" ELSE "">>)]

\* t.sections: the required section words that occur; t.headers: lines made
\* of capitals and blanks only
_check_section_organization(t) ==
    LET missing_required == SectionWords \ t.sections
        p2 == t.headers < 2
    IN  [score  |-> 100 - Cardinality(missing_required) * 25
                        - (IF p2 THEN 20 ELSE 0),
         issues |-> Compact(<<
             IF missing_required # {} THEN "Missing sections" ELSE "",
             IF p2 THEN "Unclear section headers" ELSE "">>)]

\* t.words: len(text.split()); t.bullets: a bullet indicator occurs
_check_length_optimization(t) ==
    LET word_count == t.words
        short == word_count < 200
        long  == ~short /\ word_count > 800
        mid   == ~short /\ ~long /\ word_count > 600
    IN  [score  |-> 100 - (IF short THEN 40 ELSE IF long THEN 20
                           ELSE IF mid THEN 10 ELSE 0)
                        - (IF ~t.bullets THEN 15 ELSE 0),
         issues |-> Compact(<<
             IF short THEN "Too short" ELSE IF long THEN "Too long"
             ELSE IF mid THEN "Consider condensing" ELSE "",
             IF ~t.bullets THEN "Consider using bullet points" ELSE "">>)]

\* t.sentences: len(re.split(...)); t.long_sentences: those of more than 25
\* words; t.overused: some word longer than 3 occurs more than 5 times;
\* t.starters, t.distinct_starters: first words of the non-blank sentences
_check_readability(t) ==
    LET p1 == 10 * t.long_sentences > 3 * t.sentences
        p2 == t.overused
        \* starter_variety = distinct / max(starters, 1) < 0.5
        p3 == 2 * t.distinct_starters < Max(t.starters, 1)
    IN  [score  |-> 100 - (IF p1 THEN 20 ELSE 0) - (IF p2 THEN 10 ELSE 0)
                        - (IF p3 THEN 15 ELSE 0),
         issues |-> Compact(<<
             IF p1 THEN "Some sentences are too long" ELSE "",
             IF p2 THEN "Some words are overused" ELSE "",
             IF p3 THEN "Sentence structure could be more varied" ELSE "">>)]

\* scores.get(category, {}).get("score", 0)
ScoreOf(sc, category) ==
    IF category \in DOMAIN sc THEN sc[category].score ELSE 0

\* total_score += category_score * weight over scoring_categories, then
\* round(); the weights are kept as hundredths
_calculate_overall_score(sc) ==
    round(SumSeq([i \in 1..Len(UtilsOrder) |->
              ScoreOf(sc, UtilsOrder[i]) * scoring_categories[UtilsOrder[i]]]),
          100)

\* for category, data in scores.items(): a dict iterates in insertion order,
\* which is the order _rule_based_analysis fills it in
ItemsOf(sc) == SelectSeq(UtilsOrder, LAMBDA c : c \in DOMAIN sc)

\* one recommendation per category scoring below 80
_generate_recommendations(sc) ==
    SelectSeq(ItemsOf(sc), LAMBDA c : sc[c].score < 80)

\* "Critical: <Category>" per category scoring below 60
_identify_critical_issues(sc) ==
    SelectSeq(ItemsOf(sc), LAMBDA c : sc[c].score < 60)

\* strengths only above 90
_identify_strengths_above(sc) ==
    SelectSeq(ItemsOf(sc), LAMBDA c : sc[c].score > 90)

\* "Excellent <category>" per category scoring at least 90
_identify_strengths(sc) ==
    SelectSeq(ItemsOf(sc), LAMBDA c : sc[c].score >= 90)

\* _rule_based_analysis: the six checks in order, then the overall score,
\* the recommendations, the critical issues and the strengths
_rule_based_analysis(t) ==
    LET sc == [c \in {UtilsOrder[i] : i \in 1..Len(UtilsOrder)} |->
                CASE c = "format_compatibility" -> _check_format_compatibility(t)
                  [] c = "keyword_optimization" -> _check_keyword_optimization(t)
                  [] c = "contact_information"  -> _check_contact_information(t)
                  [] c = "section_organization" -> _check_section_organization(t)
                  [] c = "length_optimization"  -> _check_length_optimization(t)
                  [] c = "readability"          -> _check_readability(t)]
    IN  [kind            |-> "ats",
         ats_score       |-> _calculate_overall_score(sc),
         categories      |-> sc,
         recommendations |-> _generate_recommendations(sc),
         critical_issues |-> _identify_critical_issues(sc),
         strengths       |-> _identify_strengths(sc)]

(***************************************************************************)
(* What utils' ATSChecker can measure on a text whose shared measurements  *)
(* are base.  A blank text (no word) has one view; another text has every  *)
(* combination of the measurements below, chosen on both sides of each     *)
(* threshold of the code and small enough to fit a text of 50 words.       *)
(***************************************************************************)
UtilsBlank(base) ==
    [words |-> base.words, email |-> base.email, phone |-> base.phone,
     sections |-> base.sections,
     table_chars |-> 0, special_chars |-> 0, nonblank_lines |-> 0,
     keyword_count |-> 0, action_verb_count |-> 0,
     linkedin |-> FALSE, location |-> FALSE, headers |-> 0, bullets |-> FALSE,
     \* re.split of '' is [''] : one sentence, no sentence starter
     sentences |-> 1, long_sentences |-> 0, overused |-> FALSE,
     starters |-> 0, distinct_starters |-> 0]

SentenceShapes ==
    { [sentences |-> 10, long_sentences |-> 3, starters |-> 10, distinct_starters |-> 5],
      [sentences |-> 10, long_sentences |-> 3, starters |-> 10, distinct_starters |-> 4],
      [sentences |-> 3,  long_sentences |-> 1, starters |-> 3,  distinct_starters |-> 2],
      [sentences |-> 3,  long_sentences |-> 1, starters |-> 3,  distinct_starters |-> 1] }

UtilsViews(base) ==
    IF base.words = 0 THEN {UtilsBlank(base)}
    ELSE { [words |-> base.words, email |-> base.email, phone |-> base.phone,
            sections |-> base.sections,
            table_chars |-> o.table_chars, special_chars |-> o.special_chars,
            nonblank_lines |-> o.nonblank_lines,
            \* 'experience' and 'skills' are two of the professional keywords
            keyword_count |-> o.other_keywords
                + Cardinality(base.sections \cap {"experience", "skills"}),
            action_verb_count |-> o.action_verb_count,
            linkedin |-> o.linkedin, location |-> o.location,
            headers |-> o.headers, bullets |-> o.bullets,
            sentences |-> o.shape.sentences,
            long_sentences |-> o.shape.long_sentences,
            overused |-> o.overused,
            starters |-> o.shape.starters,
            distinct_starters |-> o.shape.distinct_starters] :
           o \in [table_chars : {0, 1}, special_chars : {5, 6},
                  nonblank_lines : {9, 10}, other_keywords : {0, 1, 3},
                  action_verb_count : {2, 3}, linkedin : BOOLEAN,
                  location : BOOLEAN, headers : {1, 2}, bullets : BOOLEAN,
                  shape : SentenceShapes, overused : BOOLEAN] }

(***************************************************************************)
(* pages/1_ATS_Score_Checker.py: class ATSChecker.                         *)
(* Every analyze_* returns a dict with the score (max(0, score)) and the   *)
(* issues; the recommendations list has one entry per issue.               *)
(***************************************************************************)
scoring_weights ==
    [format_compatibility |-> 20, content_structure |-> 25,
     keyword_optimization |-> 20, readability |-> 15,
     contact_information |-> 10, professional_sections |-> 10]

\* the order in which main() builds component_scores
PageOrder ==
    <<"format_compatibility", "content_structure", "keyword_optimization",
      "readability", "contact_information">>

\* t.stripped_chars: len(text.strip()); t.file_type: metadata.get('file_type',
\* '').lower(); t.non_ascii: characters with ord(c) > 127; t.chars: len(text)
analyze_format_compatibility(t) ==
    LET p1 == t.chars = 0 \/ t.stripped_chars < 100
        p2 == t.file_type \notin {"pdf", "docx"}
        \* special_chars > len(text) * 0.05
        p3 == 20 * t.non_ascii > t.chars
        score == 100 - (IF p1 THEN 30 ELSE 0) - (IF p2 THEN 20 ELSE 0)
                     - (IF p3 THEN 15 ELSE 0)
    IN  [score  |-> Max(0, score),
         issues |-> Compact(<<
             IF p1 THEN "Poor text extraction" ELSE "",
             IF p2 THEN "File format may not be ATS-friendly" ELSE "",
             IF p3 THEN "High number of special characters detected" ELSE "">>)]

\* the four (section_name, keywords) groups; t.group_words: the groups one of
\* whose keywords occurs in text.lower()
required_sections == <<"contact", "experience", "education", "skills">>

analyze_content_structure(t) ==
    LET missing_sections ==
            SelectSeq(required_sections, LAMBDA g : g \notin t.group_words)
        word_count == t.words
        brief  == word_count < 200
        lengthy == ~brief /\ word_count > 1000
        score == 100 - 15 * Len(missing_sections)
                     - (IF brief THEN 20 ELSE IF lengthy THEN 10 ELSE 0)
    IN  [score  |-> Max(0, score),
         issues |-> missing_sections \o Compact(<<
             IF brief THEN "Resume content too brief"
             ELSE IF lengthy THEN "Resume content too lengthy" ELSE "">>),
         missing_sections |-> missing_sections]

\* t.found_keywords: how many of the 15 professional keywords occur;
\* t.numbers: matches of the quantified-achievement pattern; t.jd: the job
\* description: given (a non-empty string) and the sizes of the two word sets
analyze_keyword_optimization(t) ==
    LET p1 == t.found_keywords < 5
        p2 == t.numbers < 3
        \* match_ratio = len(common_words) / len(jd_words) if jd_words else 0;
        \* match_ratio < 0.3
        p3 == t.jd.given /\
              (IF t.jd.jd_words > 0
               THEN 10 * t.jd.common_words < 3 * t.jd.jd_words ELSE TRUE)
        score == 100 - (IF p1 THEN 25 ELSE 0) - (IF p2 THEN 20 ELSE 0)
                     - (IF p3 THEN 15 ELSE 0)
    IN  [score  |-> Max(0, score),
         issues |-> Compact(<<
             IF p1 THEN "Insufficient action verbs and professional keywords" ELSE "",
             IF p2 THEN "Few quantified achievements found" ELSE "",
             IF p3 THEN "Low keyword match with job description" ELSE "">>)]

\* t.dot_sentences: len(text.split('.')); t.sentence_words: the words of all
\* of them; t.page_bullets: a bullet indicator occurs; t.upper: capitals
analyze_readability(t) ==
    LET \* avg_sentence_length > 25
        p1 == t.sentence_words > 25 * t.dot_sentences
        p2 == ~t.page_bullets
        \* caps_ratio = upper / len(text) if text else 0;  caps_ratio > 0.15
        p3 == t.chars > 0 /\ 20 * t.upper > 3 * t.chars
        score == 100 - (IF p1 THEN 15 ELSE 0) - (IF p2 THEN 10 ELSE 0)
                     - (IF p3 THEN 15 ELSE 0)
    IN  [score  |-> Max(0, score),
         issues |-> Compact(<<
             IF p1 THEN "Sentences too long for ATS parsing" ELSE "",
             IF p2 THEN "No bullet points detected" ELSE "",
             IF p3 THEN "Excessive use of capital letters" ELSE "">>)]

\* basic_info.get('emails'), .get('phones'), .get('name_candidates'): each a
\* list, here whether it is non-empty
\* the phone penalty taken for 20 instead of 30
analyze_contact_information_weak(basic_info) ==
    [score  |-> Max(0, 100 - (IF ~basic_info.emails THEN 40 ELSE 0)
                           - (IF ~basic_info.phones THEN 20 ELSE 0)
                           - (IF ~basic_info.name_candidates THEN 30 ELSE 0)),
     issues |-> Compact(<<
         IF ~basic_info.emails THEN "No email address found" ELSE "",
         IF ~basic_info.phones THEN "No phone number found" ELSE "",
         IF ~basic_info.name_candidates THEN "Name not clearly identified" ELSE "">>)]

analyze_contact_information(basic_info) ==
    LET p1 == ~basic_info.emails
        p2 == ~basic_info.phones
        p3 == ~basic_info.name_candidates
        score == 100 - (IF p1 THEN 40 ELSE 0) - (IF p2 THEN 30 ELSE 0)
                     - (IF p3 THEN 30 ELSE 0)
    IN  [score  |-> Max(0, score),
         issues |-> Compact(<<
             IF p1 THEN "No email address found" ELSE "",
             IF p2 THEN "No phone number found" ELSE "",
             IF p3 THEN "Name not clearly identified" ELSE "">>)]

\* self.scoring_weights.get(component, 10)
WeightOf(c) == IF c \in DOMAIN scoring_weights THEN scoring_weights[c] ELSE 10

\* a calculate_overall_score that divides by the total of all the weights
\* of scoring_weights, whichever components were supplied
calculate_overall_score_unnormalised(component_scores) ==
    LET order == SelectSeq(PageOrder, LAMBDA c : c \in DOMAIN component_scores)
        total_score  == SumSeq([i \in 1..Len(order) |->
                            component_scores[order[i]] * WeightOf(order[i])])
    IN  int(total_score, 100)

\* component_scores maps a component to its score (an int);
\* int(total_score / total_weight) if total_weight > 0 else 0
calculate_overall_score(component_scores) ==
    LET order == SelectSeq(PageOrder, LAMBDA c : c \in DOMAIN component_scores)
        total_score  == SumSeq([i \in 1..Len(order) |->
                            component_scores[order[i]] * WeightOf(order[i])])
        total_weight == SumSeq([i \in 1..Len(order) |-> WeightOf(order[i])])
    IN  IF total_weight > 0 THEN int(total_score, total_weight) ELSE 0

\* utils.resume_parser.parse_uploaded_resume is imported by the page but is
\* not in the repository's resume_parser.py; the contact extractor of the
\* specification (section 4.2) collects every match of each rule.
parse_uploaded_resume(t) ==
    [emails |-> t.email, phones |-> t.phone, name_candidates |-> t.name_candidates]

\* main(), lines 288-304: the five analyses, component_scores, overall_score
PageAnalysis(t) ==
    LET basic_info == parse_uploaded_resume(t)
        an == [c \in {PageOrder[i] : i \in 1..Len(PageOrder)} |->
                CASE c = "format_compatibility" -> analyze_format_compatibility(t)
                  [] c = "content_structure"    -> analyze_content_structure(t)
                  [] c = "keyword_optimization" -> analyze_keyword_optimization(t)
                  [] c = "readability"          -> analyze_readability(t)
                  [] c = "contact_information"  ->
                        analyze_contact_information(basic_info)]
        component_scores == [c \in DOMAIN an |-> an[c].score]
    IN  [kind          |-> "page",
         overall_score |-> calculate_overall_score(component_scores),
         categories    |-> an]

(***************************************************************************)
(* What the page's ATSChecker can measure on a text with the shared        *)
(* measurements base, with the metadata and the optional job description.  *)
(***************************************************************************)
\* a text of w words separated by single blanks has at least 2w-1 characters
CharsOf(w) == IF w = 0 THEN {0} ELSE IF w <= 50 THEN {2 * w - 1, 6 * w} ELSE {6 * w}

JobDescriptions ==
    { [given |-> FALSE, jd_words |-> 0, common_words |-> 0],
      [given |-> TRUE, jd_words |-> 10, common_words |-> 2],
      [given |-> TRUE, jd_words |-> 10, common_words |-> 3] }

PageViews(base) ==
    { [words |-> base.words, email |-> base.email, phone |-> base.phone,
       sections |-> base.sections,
       chars |-> o.chars, stripped_chars |-> o.chars,
       file_type |-> o.file_type,
       non_ascii |-> IF o.heavy_non_ascii THEN o.chars \div 20 + 1
                     ELSE o.chars \div 20,
       \* each section word is a keyword of its own group
       group_words |-> IF base.words = 0 THEN {}
                       ELSE base.sections \cup o.synonyms,
       found_keywords |-> IF base.words = 0 THEN 0 ELSE o.found_keywords,
       numbers |-> IF base.words = 0 THEN 0 ELSE o.numbers,
       jd |-> o.jd,
       \* ''.split('.') is [''] : one sentence without words
       dot_sentences |-> IF o.long_sentences THEN Max(1, base.words \div 26)
                         ELSE Max(1, base.words \div 25),
       sentence_words |-> base.words,
       page_bullets |-> base.words > 0 /\ o.page_bullets,
       upper |-> IF o.many_capitals THEN (3 * o.chars) \div 20 + 1
                 ELSE (3 * o.chars) \div 20,
       name_candidates |-> base.words > 1 /\ o.name_candidates] :
      o \in [chars : CharsOf(base.words), file_type : {"pdf", "docx", "txt", ""},
             heavy_non_ascii : BOOLEAN,
             synonyms : {{}, {"contact"}, {"experience", "education", "skills"},
                         {"contact", "experience", "education", "skills"}},
             found_keywords : {4, 5}, numbers : {2, 3}, jd : JobDescriptions,
             long_sentences : BOOLEAN, page_bullets : BOOLEAN,
             many_capitals : BOOLEAN, name_candidates : BOOLEAN] }

(***************************************************************************)
(* utils/scoring_system.py: class ScoringSystem.                           *)
(* A score is kept as the fraction num/den: _basic_ats_check adds          *)
(* (found_sections / 3) * 20 and returns the sum unrounded.                *)
(***************************************************************************)
Frac(n, d) == IF n % d = 0 THEN [num |-> n \div d, den |-> 1]
              ELSE [num |-> n, den |-> d]
Whole(n) == [num |-> n, den |-> 1]

\* the modules scoring_system.py imports (lines 1-5); it uses re.findall
\* without importing re, and Python raises NameError where the name is read
ScoringImports == {"streamlit", "typing", "json", "statistics", "datetime"}

Returned(q) == [raised |-> FALSE, score |-> q, error |-> ""]
Raised(e) == [raised |-> TRUE, score |-> Whole(0), error |-> e]

scoring_weights_system ==
    [content_quality |-> 25, skills_relevance |-> 20, experience_depth |-> 20,
     formatting |-> 15, ats_compatibility |-> 15, quantified_impact |-> 5]

\* the order in which calculate_comprehensive_score calls the evaluators
ScoringOrder ==
    <<"content_quality", "skills_relevance", "experience_depth",
      "formatting", "ats_compatibility", "quantified_impact">>

\* d.found_professional: how many of the 5 professional words occur
_rule_based_content_analysis(d) ==
    Min(100, 70 + Min(20, d.found_professional * 4))

\* 100 for 300..600 words, 85 for 200..299 and 601..800, else 70
WordScore(word_count) ==
    IF 300 <= word_count /\ word_count <= 600 THEN 100
    ELSE IF (200 <= word_count /\ word_count < 300)
            \/ (600 < word_count /\ word_count <= 800) THEN 85
    ELSE 70

\* d.ai_content: [given, overall_score], the content_quality entry of
\* resume_data["ai_analysis"];  final_score = base * 0.7 + word_score * 0.3
_evaluate_content_quality(d) ==
    LET base_score == IF d.ai_content.given THEN d.ai_content.overall_score
                      ELSE _rule_based_content_analysis(d)
        word_score == WordScore(d.words)
    IN  Returned(Whole(round(7 * base_score + 3 * word_score, 10)))

\* d.found_technical of 19, d.found_soft of 8; 'skills' in text
_evaluate_skills_relevance(d) ==
    LET technical_score == Min(100, 20 * d.found_technical)
        \* soft_score = min(100, found_soft / 3 * 100), kept in thirds
        soft_score3 == Min(300, 100 * d.found_soft)
        skills_section_score == IF "skills" \in d.sections THEN 100 ELSE 50
    IN  \* technical * 0.5 + soft * 0.3 + section * 0.2
        Returned(Whole(round(15 * technical_score + 3 * soft_score3
                             + 6 * skills_section_score, 30)))

\* line 163 reads re.findall; d.employment: 'employment' occurs;
\* d.positions: matches of the year-range pattern; d.found_verbs of 11
_evaluate_experience_depth(d) ==
    LET section_score == IF "experience" \in d.sections \/ d.employment
                         THEN 100 ELSE 30
        positions_score3 == Min(300, 100 * d.positions)
        verbs_score == Min(100, 20 * d.found_verbs)
    IN  IF "re" \notin ScoringImports THEN Raised("NameError")
        ELSE \* section * 0.4 + positions * 0.3 + verbs * 0.3
             Returned(Whole(round(12 * section_score + 3 * positions_score3
                                  + 9 * verbs_score, 30)))

\* type_scores.get(file_type, 50); d.summary: 'summary' occurs
_evaluate_formatting(d) ==
    LET file_type_score == CASE d.file_type = "pdf" -> 100
                             [] d.file_type = "docx" -> 90
                             [] d.file_type = "txt" -> 60
                             [] OTHER -> 50
        found_sections == Cardinality(d.sections) + (IF d.summary THEN 1 ELSE 0)
        structure_score == 25 * found_sections
        length_score == WordScore(d.words)
    IN  Returned(Whole(round(3 * file_type_score + 4 * structure_score
                             + 3 * length_score, 10)))

\* score = 70, + 10 if '@' in text, + (found_sections / 3) * 20; min(100, score)
_basic_ats_check(d) ==
    LET score3 == 210 + (IF d.at_sign THEN 30 ELSE 0) + 20 * Cardinality(d.sections)
    IN  Frac(Min(300, score3), 3)

\* d.ats_analysis: [given, ats_score], resume_data["ats_analysis"]
_evaluate_ats_compatibility(d) ==
    Returned(IF d.ats_analysis.given THEN Whole(d.ats_analysis.ats_score)
             ELSE _basic_ats_check(d))

\* lines 251-263 read re.findall; d.numbers, d.impact_mentions: the matches
_evaluate_quantified_impact(d) ==
    LET numbers_score == Min(100, d.numbers * 20)
        impact_score == Min(100, d.impact_mentions * 30)
    IN  IF "re" \notin ScoringImports THEN Raised("NameError")
        ELSE Returned(Whole(round(6 * numbers_score + 4 * impact_score, 10)))

Evaluate(c, d) ==
    CASE c = "content_quality"   -> _evaluate_content_quality(d)
      [] c = "skills_relevance"  -> _evaluate_skills_relevance(d)
      [] c = "experience_depth"  -> _evaluate_experience_depth(d)
      [] c = "formatting"        -> _evaluate_formatting(d)
      [] c = "ats_compatibility" -> _evaluate_ats_compatibility(d)
      [] c = "quantified_impact" -> _evaluate_quantified_impact(d)

\* scores.get(category, {}).get("score", 0) * weight summed over
\* scoring_weights, then round(); sc maps categories to scores (fractions)
_calculate_weighted_score(sc) ==
    round(SumSeq([i \in 1..Len(ScoringOrder) |->
              IF ScoringOrder[i] \in DOMAIN sc
              THEN sc[ScoringOrder[i]].num * (3 \div sc[ScoringOrder[i]].den)
                   * scoring_weights_system[ScoringOrder[i]]
              ELSE 0]),
          300)

\* for category, data in scores.items(): score >= 85
_identify_strengths_system(sc) ==
    SelectSeq(SelectSeq(ScoringOrder, LAMBDA c : c \in DOMAIN sc),
              LAMBDA c : sc[c].num >= 85 * sc[c].den)

\* the evaluators run in order; the first exception leaves the method
calculate_comprehensive_score(d) ==
    LET ev == [i \in 1..Len(ScoringOrder) |-> Evaluate(ScoringOrder[i], d)]
        failed == {i \in 1..Len(ScoringOrder) : ev[i].raised}
        sc == [c \in {ScoringOrder[i] : i \in 1..Len(ScoringOrder)} |->
                 (CHOOSE i \in 1..Len(ScoringOrder) : ScoringOrder[i] = c)]
        category_scores == [c \in DOMAIN sc |-> ev[sc[c]].score]
    IN  IF failed # {}
        THEN [kind |-> "raised",
              error |-> ev[CHOOSE i \in failed : \A j \in failed : i <= j].error]
        ELSE [kind |-> "comprehensive",
              overall_score |-> _calculate_weighted_score(category_scores),
              category_scores |-> category_scores,
              strengths |-> _identify_strengths_system(category_scores),
              \* "timestamp": datetime.now().isoformat()
              timestamp |-> d.now]

(***************************************************************************)
(* The resume_data dictionaries a text with the shared measurements base   *)
(* can come with.                                                          *)
(***************************************************************************)
AIScores == {100, 150}
Clock == {1, 2}

ScoringData(base) ==
    { [words |-> base.words, sections |-> base.sections,
       ai_content |-> o.ai_content,
       found_professional |-> IF base.words = 0 THEN 0 ELSE o.verbs.found_professional,
       found_verbs |-> IF base.words = 0 THEN 0 ELSE o.verbs.found_verbs,
       found_technical |-> IF base.words = 0 THEN 0 ELSE o.skills.found_technical,
       found_soft |-> IF base.words = 0 THEN 0 ELSE o.skills.found_soft,
       employment |-> base.words > 0 /\ o.verbs.positions > 0,
       positions |-> IF base.words = 0 THEN 0 ELSE o.verbs.positions,
       numbers |-> IF base.words = 0 THEN 0 ELSE o.verbs.numbers,
       impact_mentions |-> IF base.words = 0 THEN 0 ELSE o.verbs.impact_mentions,
       file_type |-> o.file_type,
       summary |-> base.words > 0 /\ o.summary,
       ats_analysis |-> o.ats_analysis,
       \* an e-mail address contains '@'
       at_sign |-> base.email \/ (base.words > 0 /\ o.at_sign),
       now |-> o.now] :
      o \in [ai_content : {[given |-> FALSE, overall_score |-> 0]} \cup
                          {[given |-> TRUE, overall_score |-> v] : v \in AIScores},
             verbs : {[found_professional |-> 0, found_verbs |-> 0,
                       positions |-> 0, numbers |-> 0, impact_mentions |-> 0],
                      [found_professional |-> 5, found_verbs |-> 5,
                       positions |-> 3, numbers |-> 5, impact_mentions |-> 3]},
             skills : {[found_technical |-> 0, found_soft |-> 0],
                       [found_technical |-> 1, found_soft |-> 1],
                       [found_technical |-> 5, found_soft |-> 3],
                       [found_technical |-> 6, found_soft |-> 2]},
             file_type : {"pdf", "docx", "txt", ""},
             summary : BOOLEAN,
             ats_analysis : {[given |-> FALSE, ats_score |-> 0]} \cup
                            {[given |-> TRUE, ats_score |-> v] : v \in AIScores},
             at_sign : BOOLEAN,
             now : Clock] }

(***************************************************************************)
(* The heuristic scorers as a state machine: one resume text, one scorer.  *)
(***************************************************************************)
Components == {"utils", "page", "scoring"}

Init ==
    /\ component \in Components
    /\ pc = "start"
    /\ text \in Texts
    /\ scores = <<>>
    /\ result = NoResult
    /\ resume_text = <<>> /\ job_description = <<>>
    /\ hash_seed = "none" /\ second = NoResult
    /\ use_ai = FALSE /\ model = "none" /\ attempt = 0
    /\ response = NoResult /\ ai_analysis = NoResult
    /\ raw_text = <<>> /\ planted = NoResult
    /\ NoRequests /\ NoFile /\ NoStore /\ NoPages

\* utils ATSChecker._rule_based_analysis(resume_text)
RuleBasedAnalysis ==
    /\ component = "utils" /\ pc = "start"
    /\ \E t \in UtilsViews(text) : result' = _rule_based_analysis(t)
    /\ pc' = "done"
    /\ UNCHANGED <<component, text, scores>>
    /\ UNCHANGED <<matchVars, aiVars, contactVars, restVars>>

\* the analysis of the ATS Score Checker page
AnalyzePage ==
    /\ component = "page" /\ pc = "start"
    /\ \E t \in PageViews(text) : result' = PageAnalysis(t)
    /\ pc' = "done"
    /\ UNCHANGED <<component, text, scores>>
    /\ UNCHANGED <<matchVars, aiVars, contactVars, restVars>>

\* ScoringSystem.calculate_comprehensive_score(resume_data)
CalculateComprehensiveScore ==
    /\ component = "scoring" /\ pc = "start"
    /\ \E d \in ScoringData(text) : result' = calculate_comprehensive_score(d)
    /\ pc' = "done"
    /\ UNCHANGED <<component, text, scores>>
    /\ UNCHANGED <<matchVars, aiVars, contactVars, restVars>>

\* the _evaluate_* methods called one by one on the same resume_data: scores
\* gets the entry of every evaluator that returns
EvaluateCategories ==
    /\ component = "scoring" /\ pc = "start"
    /\ \E d \in ScoringData(text) :
         scores' = [c \in {ScoringOrder[i] : i \in 1..Len(ScoringOrder)} |->
                      Evaluate(c, d)]
    /\ pc' = "evaluated"
    /\ UNCHANGED <<component, text, result>>
    /\ UNCHANGED <<matchVars, aiVars, contactVars, restVars>>

\* ScoringSystem._calculate_weighted_score on the scores that were returned
CalculateWeightedScore ==
    /\ component = "scoring" /\ pc = "evaluated"
    /\ LET sc == [c \in {c \in DOMAIN scores : ~scores[c].raised} |->
                    scores[c].score]
       IN  result' = [kind |-> "weighted",
                      overall_score |-> _calculate_weighted_score(sc),
                      category_scores |-> sc]
    /\ pc' = "done"
    /\ UNCHANGED <<component, text, scores>>
    /\ UNCHANGED <<matchVars, aiVars, contactVars, restVars>>

\* ScoringSystem._identify_strengths on the scores that were returned
IdentifyStrengths ==
    /\ component = "scoring" /\ pc = "evaluated"
    /\ LET sc == [c \in {c \in DOMAIN scores : ~scores[c].raised} |->
                    scores[c].score]
       IN  result' = [kind |-> "strengths",
                      strengths |-> _identify_strengths_system(sc),
                      category_scores |-> sc]
    /\ pc' = "done"
    /\ UNCHANGED <<component, text, scores>>
    /\ UNCHANGED <<matchVars, aiVars, contactVars, restVars>>

Next ==
    \/ RuleBasedAnalysis
    \/ AnalyzePage
    \/ CalculateComprehensiveScore
    \/ EvaluateCategories
    \/ CalculateWeightedScore
    \/ IdentifyStrengths

Spec == Init /\ [][Next]_vars

(***************************************************************************)
(* Properties of the heuristic scorers (specification Spec).               *)
(***************************************************************************)
InRange(n) == n \in 0..100
FracInRange(q) == q.den = 1 /\ q.num \in 0..100

Abs(n) == IF n < 0 THEN -n ELSE n

\* n is num/den rounded to the nearest integer, a tie to the even neighbour
IsRounded(n, num, den) ==
    \/ 2 * Abs(n * den - num) < den
    \/ 2 * Abs(n * den - num) = den /\ n % 2 = 0

\* n is num/den rounded to a nearest integer, whichever way a tie goes
IsNearest(n, num, den) == 2 * Abs(n * den - num) <= den

\* n is num/den truncated
IsFloor(n, num, den) == n * den <= num /\ num < (n + 1) * den

UtilsCats == DOMAIN scoring_categories
PageCats == {PageOrder[i] : i \in 1..Len(PageOrder)}
SystemCats == DOMAIN scoring_weights_system

SumOver(S, f(_)) ==
    LET RECURSIVE Go(_)
        Go(T) == IF T = {} THEN 0
                 ELSE LET x == CHOOSE y \in T : TRUE IN f(x) + Go(T \ {x})
    IN  Go(S)

\* C1 (as claimed): every category score the rule-based evaluators produce,
\* and every overall score computed from them, is an integer in 0..100.
C1_AllScoresInRange ==
    /\ result.kind = "ats" =>
          /\ InRange(result.ats_score)
          /\ \A c \in UtilsCats : InRange(result.categories[c].score)
    /\ result.kind = "page" =>
          /\ InRange(result.overall_score)
          /\ \A c \in PageCats : InRange(result.categories[c].score)
    /\ pc = "evaluated" =>
          \A c \in SystemCats : ~scores[c].raised => FracInRange(scores[c].score)
    /\ result.kind = "weighted" => InRange(result.overall_score)

\* C2 (as claimed): every overall score is the weighted sum of the recorded
\* category scores, the weights normalised to sum to 1, rounded to a nearest
\* integer.
C2_OverallIsRoundedSum ==
    /\ result.kind = "ats" =>
          IsNearest(result.ats_score,
                    SumOver(UtilsCats, LAMBDA c :
                        result.categories[c].score * scoring_categories[c]),
                    SumOver(UtilsCats, LAMBDA c : scoring_categories[c]))
    /\ result.kind = "page" =>
          IsNearest(result.overall_score,
                    SumOver(PageCats, LAMBDA c :
                        result.categories[c].score * scoring_weights[c]),
                    SumOver(PageCats, LAMBDA c : scoring_weights[c]))
    /\ result.kind = "weighted" =>
          IsNearest(result.overall_score,
                    SumOver(DOMAIN result.category_scores, LAMBDA c :
                        result.category_scores[c].num
                        * (3 \div result.category_scores[c].den)
                        * scoring_weights_system[c]),
                    3 * SumOver(SystemCats, LAMBDA c : scoring_weights_system[c]))

\* C2 (amended): utils' _calculate_overall_score and ScoringSystem's
\* _calculate_weighted_score return the weighted sum of the recorded category
\* scores, with weights that sum to 1.0 (a category without a score counting
\* 0), rounded to the nearest integer, a tie to the even one; the page's
\* calculate_overall_score returns the weighted mean over the five supplied
\* components (weights 20, 25, 20, 15, 10, which sum to 90), truncated.
C2_OverallRecomputed ==
    /\ SumOver(UtilsCats, LAMBDA c : scoring_categories[c]) = 100
    /\ SumOver(SystemCats, LAMBDA c : scoring_weights_system[c]) = 100
    /\ result.kind = "ats" =>
          IsRounded(result.ats_score,
                    SumOver(UtilsCats, LAMBDA c :
                        result.categories[c].score * scoring_categories[c]),
                    100)
    /\ result.kind = "page" =>
          IsFloor(result.overall_score,
                  SumOver(PageCats, LAMBDA c :
                      result.categories[c].score * scoring_weights[c]),
                  90)
    /\ result.kind = "weighted" =>
          IsRounded(result.overall_score,
                    SumOver(DOMAIN result.category_scores, LAMBDA c :
                        result.category_scores[c].num
                        * (3 \div result.category_scores[c].den)
                        * scoring_weights_system[c]),
                    300)

\* an overall score that needed rounding: the weighted sum is no integer
C2_Witness ==
    /\ result.kind = "ats"
    /\ SumOver(UtilsCats, LAMBDA c :
           result.categories[c].score * scoring_categories[c]) % 100 = 50
    /\ result.ats_score % 2 = 0

\* C4 (as claimed): no evaluator and no scoring operation raises.
C4_NeverRaises ==
    /\ result.kind # "raised"
    /\ pc = "evaluated" => \A c \in SystemCats : ~scores[c].raised

\* the scenario of C8: 50 words, no e-mail address, no phone number, none of
\* the section keywords of the scorer that ran
C8_Scenario ==
    /\ pc = "done" /\ text.words = 50 /\ ~text.email /\ ~text.phone
    /\ \/ result.kind = "ats" /\ text.sections = {}
       \/ result.kind = "page"
          /\ Len(result.categories["content_structure"].missing_sections) = 4

C8_Contact == result.categories["contact_information"]
C8_Structure ==
    IF result.kind = "ats" THEN result.categories["section_organization"]
    ELSE result.categories["content_structure"]

\* C8 (as claimed): in the scenario the contact score is 0 and the structure
\* score is at most 40.
C8_ContactZero ==
    C8_Scenario => C8_Contact.score = 0 /\ C8_Structure.score <= 40

\* C8 (amended): in the scenario the contact score is at most 30, and it is 0
\* exactly when every other contact check fails as well (page: no name
\* candidate; utils: no 'linkedin' and no location indicator); the structure
\* score is at most 40.
C8_ContactAtMost30 ==
    C8_Scenario =>
        /\ C8_Contact.score <= 30
        /\ C8_Contact.score = 0 <=>
              Len(C8_Contact.issues) = (IF result.kind = "ats" THEN 4 ELSE 3)
        /\ C8_Structure.score <= 40

\* the scenario with a name at the top of the resume: the contact score is 30
C8_Witness ==
    C8_Scenario /\ result.kind = "page" /\ C8_Contact.score = 30

(***************************************************************************)
(* JobMatcher (src/utils/job_matcher.py).                                  *)
(*                                                                         *)
(* A text is a sequence of lower-case words with one blank between two     *)
(* words and nothing else, so text.lower() is the text itself.  A keyword  *)
(* (a word or a phrase of the code's keyword sets) is the sequence of its  *)
(* words: <<"python">>, <<"machine", "learning">>.  No word of Vocabulary  *)
(* begins or ends with another one, so a phrase occurs in a text as a      *)
(* substring exactly where its words stand side by side.                   *)
(***************************************************************************)
Vocabulary ==
    {"python", "sql", "with", "skills", "experience", "years", "senior",
     "software", "leadership"}

\* the words job descriptions are made of
JobVocabulary == Vocabulary \ {"years"}

\* len(word)
WordLen(w) ==
    CASE w = "python" -> 6 [] w = "sql" -> 3 [] w = "with" -> 4
      [] w = "skills" -> 6 [] w = "experience" -> 10 [] w = "years" -> 5
      [] w = "senior" -> 6 [] w = "software" -> 8 [] w = "leadership" -> 10

\* the strings the code looks for that a word holds as a proper substring
Inside(w) == IF w = "leadership" THEN {"lead"} ELSE {}

\* the order of the words that the two iteration orders of a set are built on
WordRank(w) ==
    CASE w = "python" -> 1 [] w = "sql" -> 2 [] w = "with" -> 3
      [] w = "skills" -> 4 [] w = "experience" -> 5 [] w = "years" -> 6
      [] w = "senior" -> 7 [] w = "software" -> 8 [] w = "leadership" -> 9

Range(s) == {s[i] : i \in 1..Len(s)}

Take(s, n) == SubSeq(s, 1, Min(n, Len(s)))

Reverse(s) == [i \in 1..Len(s) |-> s[Len(s) + 1 - i]]

common_skills ==
    [technical |->
       << <<"python">>, <<"java">>, <<"javascript">>, <<"sql">>, <<"html">>,
          <<"css">>, <<"react">>, <<"node.js">>, <<"aws">>, <<"azure">>,
          <<"docker">>, <<"kubernetes">>, <<"git">>, <<"linux">>,
          <<"windows">>, <<"machine", "learning">>, <<"data", "analysis">>,
          <<"artificial", "intelligence">>, <<"deep", "learning">> >>,
     soft |->
       << <<"leadership">>, <<"communication">>, <<"teamwork">>,
          <<"problem", "solving">>, <<"analytical">>,
          <<"project", "management">>, <<"time", "management">>,
          <<"adaptability">>, <<"creativity">> >>,
     business |->
       << <<"strategy">>, <<"planning">>, <<"budgeting">>, <<"forecasting">>,
          <<"operations">>, <<"marketing">>, <<"sales">>,
          <<"customer", "service">>, <<"business", "analysis">> >>]

\* the order in which the code walks common_skills
SkillCategories == <<"technical", "soft", "business">>

AllSkills == UNION {Range(common_skills[c]) : c \in DOMAIN common_skills}

stop_words ==
    {"the", "and", "or", "but", "in", "on", "at", "to", "for", "of", "with",
     "by", "as", "is", "are", "was", "were", "be", "been", "have", "has",
     "had", "do", "does", "did", "will", "would", "could", "should", "may",
     "might", "must", "can", "shall", "about", "into", "through", "during",
     "before", "after", "above", "below", "up", "down", "out", "off", "over",
     "under", "again", "further", "then", "once"}

\* the string needle stands in txt at word i
OccursAt(needle, txt, i) ==
    /\ i + Len(needle) - 1 <= Len(txt)
    /\ IF Len(needle) = 1
       THEN txt[i] = needle[1] \/ needle[1] \in Inside(txt[i])
       ELSE \A k \in 1..Len(needle) : txt[i + k - 1] = needle[k]

\* needle in txt
Occurs(needle, txt) == \E i \in 1..Len(txt) : OccursAt(needle, txt, i)

\* txt.count(needle): occurrences that do not overlap, from the left
CountOccurrences(needle, txt) ==
    LET RECURSIVE From(_)
        From(i) ==
            IF i > Len(txt) THEN 0
            ELSE IF OccursAt(needle, txt, i) THEN 1 + From(i + Len(needle))
            ELSE From(i + 1)
    IN  From(1)

\* JobMatcher._extract_keywords(text)
_extract_keywords(txt) ==
    LET n == Len(txt)
        words == {<<txt[i]>> : i \in 1..n}
        \* re.findall consumes what it matched: words 1-2, 3-4, ...
        pairs == {SubSeq(txt, 2 * k - 1, 2 * k) : k \in 1..(n \div 2)}
        triples == {SubSeq(txt, 3 * k - 2, 3 * k) : k \in 1..(n \div 3)}
    IN  {w \in words : WordLen(w[1]) > 3 /\ w[1] \notin stop_words}
        \cup {p \in pairs \cup triples : Range(p) \cap stop_words = {}}
        \cup {s \in AllSkills : Occurs(s, txt)}

\* where a keyword stands in the order of an ascending walk
KeywordRank(k) ==
    100 * WordRank(k[1])
    + (IF Len(k) >= 2 THEN 10 * WordRank(k[2]) ELSE 0)
    + (IF Len(k) >= 3 THEN WordRank(k[3]) ELSE 0)

RECURSIVE Ascending(_)
Ascending(S) ==
    IF S = {} THEN <<>>
    ELSE LET m == CHOOSE x \in S : \A y \in S : KeywordRank(x) <= KeywordRank(y)
         IN  <<m>> \o Ascending(S \ {m})

\* The hash seeds of two interpreters.  The order in which a set of strings
\* is walked follows the strings' hashes, which every interpreter salts
\* anew; the two seeds stand for two of the orders that can come out.
HashSeeds == {"seed_a", "seed_b"}

\* for keyword in S, under the seed of the running interpreter
IterationOrder(S, seed) ==
    IF seed = "seed_a" THEN Ascending(S) ELSE Reverse(Ascending(S))

\* a word at whose end the pattern (requirements?|qualifications?|skills?)
\* can match
section_words ==
    {"requirement", "requirements", "qualification", "qualifications",
     "skill", "skills"}

\* JobMatcher._determine_keyword_importance(keyword, job_description)
_determine_keyword_importance(keyword, job) ==
    LET keyword_count == CountOccurrences(keyword, job)
        \* the pattern asks for a blank or colon after the word: the last
        \* word of the text cannot open the section
        starts == {i \in 1..(Len(job) - 1) : job[i] \in section_words}
        is_in_requirements ==
            /\ starts # {}
            /\ LET i == CHOOSE j \in starts : \A k \in starts : j <= k
               IN  Occurs(keyword, SubSeq(job, i + 1, Len(job)))
        is_technical ==
            \E c \in DOMAIN common_skills : keyword \in Range(common_skills[c])
    IN  IF keyword_count >= 3 \/ is_in_requirements THEN "high"
        ELSE IF keyword_count >= 2 \/ is_technical THEN "medium"
        ELSE "low"

\* the keyword matches without the importance filter on the gaps
_analyze_keyword_matches_unfiltered(matches, gaps, job, seed) ==
    LET entry(k, f) ==
            [keyword |-> k, found |-> f,
             importance |-> _determine_keyword_importance(k, job)]
        found == IterationOrder(matches, seed)
        missing == Take(IterationOrder(gaps, seed), 10)
    IN  [i \in 1..Len(found) |-> entry(found[i], TRUE)]
        \o [i \in 1..Len(missing) |-> entry(missing[i], FALSE)]

\* the keyword matches with every entry tagged as found
_analyze_keyword_matches_all_found(matches, gaps, job, seed) ==
    LET entry(k) ==
            [keyword |-> k, found |-> TRUE,
             importance |-> _determine_keyword_importance(k, job)]
        found == IterationOrder(matches, seed)
        missing == Take(IterationOrder(gaps, seed), 10)
    IN  [i \in 1..Len(found) |-> entry(found[i])]
        \o SelectSeq([i \in 1..Len(missing) |-> entry(missing[i])],
                     LAMBDA e : e.importance \in {"high", "medium"})

\* JobMatcher._analyze_keyword_matches(matches, gaps, job_description)
_analyze_keyword_matches(matches, gaps, job, seed) ==
    LET entry(k, f) ==
            [keyword |-> k, found |-> f,
             importance |-> _determine_keyword_importance(k, job)]
        found == IterationOrder(matches, seed)
        missing == Take(IterationOrder(gaps, seed), 10)
    IN  [i \in 1..Len(found) |-> entry(found[i], TRUE)]
        \o SelectSeq([i \in 1..Len(missing) |-> entry(missing[i], FALSE)],
                     LAMBDA e : e.importance \in {"high", "medium"})

\* gap.title(): the keyword with its words capitalised
title(k) == [title |-> k]

\* skill gaps topped up with as many as ten other gaps
_identify_skill_gaps_ten_others(gaps, seed) ==
    LET order == IterationOrder(gaps, seed)
        skills == SelectSeq(order, LAMBDA g : g \in AllSkills)
        other_gaps == SelectSeq(order, LAMBDA g : g \notin Range(skills))
    IN  Take([i \in 1..Len(skills) |-> title(skills[i])] \o Take(other_gaps, 10),
             10)

\* JobMatcher._identify_skill_gaps(gaps)
_identify_skill_gaps(gaps, seed) ==
    LET order == IterationOrder(gaps, seed)
        skills == SelectSeq(order, LAMBDA g : g \in AllSkills)
        \* sg.lower() of a titled skill is the skill again
        other_gaps == SelectSeq(order, LAMBDA g : g \notin Range(skills))
    IN  Take([i \in 1..Len(skills) |-> title(skills[i])] \o Take(other_gaps, 5),
             10)

\* JobMatcher._find_strengths(matches, resume_text)
_find_strengths(matches, resume, seed) ==
    LET order == IterationOrder(matches, seed)
        category_matches(c) ==
            SelectSeq(order, LAMBDA m : m \in Range(common_skills[c]))
        strength(c) ==
            IF Len(category_matches(c)) >= 2
            THEN << [category |-> c, skills |-> Take(category_matches(c), 3)] >>
            ELSE <<>>
        experience ==
            IF <<"experience">> \in matches /\ Occurs(<<"years">>, resume)
            THEN << [category |-> "experience", skills |-> <<>>] >>
            ELSE <<>>
    IN  Take(strength("technical") \o strength("soft") \o strength("business")
             \o experience, 5)

industry_patterns ==
    << <<"software">>, <<"tech">>, <<"digital">>, <<"innovation">>,
       <<"platform">>,
       <<"financial">>, <<"banking">>, <<"investment">>, <<"portfolio">>,
       <<"risk">>,
       <<"medical">>, <<"patient">>, <<"clinical">>, <<"hospital">>,
       <<"healthcare">>,
       <<"customer">>, <<"sales">>, <<"merchandise">>, <<"store">>,
       <<"retail">>,
       <<"client">>, <<"consulting">>, <<"advisory">>, <<"strategy">>,
       <<"solution">> >>

\* JobMatcher._extract_industry_keywords(job_description)
_extract_industry_keywords(job) ==
    SelectSeq(industry_patterns, LAMBDA k : Occurs(k, job))

\* JobMatcher._generate_matching_recommendations(gaps, matches, job_description)
_generate_matching_recommendations(gaps, matches, job, seed) ==
    LET priority_gaps ==
            SelectSeq(IterationOrder(gaps, seed),
                      LAMBDA g : _determine_keyword_importance(g, job) = "high")
        top == Take(priority_gaps, 3)
        for_gaps ==
            [i \in 1..Len(top) |->
               IF top[i] \in AllSkills
               THEN [advice |-> "Consider gaining experience in",
                     about |-> <<title(top[i])>>]
               ELSE [advice |-> "Highlight experience if available",
                     about |-> <<title(top[i])>>]]
        more_keywords ==
            IF Cardinality(matches) < 10
            THEN << [advice |-> "Include more job-specific keywords in your resume",
                     about |-> <<>>] >>
            ELSE <<>>
        \* 'senior' not in ' '.join(matches): in none of the joined keywords
        senior ==
            IF /\ Occurs(<<"senior">>, job)
               /\ \A m \in matches : ~Occurs(<<"senior">>, m)
            THEN << [advice |-> "Emphasize senior-level experience and leadership",
                     about |-> <<>>] >>
            ELSE <<>>
        missing_industry ==
            SelectSeq(_extract_industry_keywords(job),
                      LAMBDA k : k \notin matches)
        industry ==
            IF missing_industry # <<>>
            THEN << [advice |-> "Add industry-specific terms",
                     about |-> Take(missing_industry, 3)] >>
            ELSE <<>>
    IN  Take(for_gaps \o more_keywords \o senior \o industry, 6)

experience_indicators ==
    << <<"years">>, <<"experience">>, <<"senior">>, <<"junior">>, <<"lead">>,
       <<"manager">> >>

\* sum(1 for needle in needles if needle in txt)
HowManyOccur(needles, txt) ==
    Len(SelectSeq(needles, LAMBDA k : Occurs(k, txt)))

\* round(min(100, (have / max(wanted, 1)) * 100)) if wanted > 0 else neutral
AreaScore(have, wanted, neutral) ==
    IF wanted > 0 THEN Min(100, round(100 * have, Max(wanted, 1))) ELSE neutral

\* JobMatcher._analyze_compatibility_areas(resume_text, job_description)
_analyze_compatibility_areas(resume, job) ==
    LET industry_keywords == _extract_industry_keywords(job)
    IN  [technical_skills |->
           AreaScore(HowManyOccur(common_skills.technical, resume),
                     HowManyOccur(common_skills.technical, job), 50),
         experience_level |->
           AreaScore(HowManyOccur(experience_indicators, resume),
                     HowManyOccur(experience_indicators, job), 60),
         industry_knowledge |->
           AreaScore(HowManyOccur(industry_keywords, resume),
                     Len(industry_keywords), 70),
         soft_skills |->
           AreaScore(HowManyOccur(common_skills.soft, resume),
                     HowManyOccur(common_skills.soft, job), 65)]

\* a match score that is cut off instead of rounded
match_score_truncated(matched, wanted) == (100 * matched) \div Max(wanted, 1)

\* round(len(matches) / max(len(job_keywords), 1) * 100); with fewer than 40
\* job keywords the floating-point quotient rounds as the exact one does
match_score(matched, wanted) == round(100 * matched, Max(wanted, 1))

\* JobMatcher._rule_based_matching(resume_text, job_description), run by an
\* interpreter with the given hash seed
_rule_based_matching(resume, job, seed) ==
    LET resume_keywords == _extract_keywords(resume)
        job_keywords == _extract_keywords(job)
        matches == resume_keywords \cap job_keywords
        gaps == job_keywords \ resume_keywords
    IN  [kind |-> "match",
         match_score |-> match_score(Cardinality(matches),
                                     Cardinality(job_keywords)),
         keyword_matches |-> _analyze_keyword_matches(matches, gaps, job, seed),
         skill_gaps |-> _identify_skill_gaps(gaps, seed),
         strengths |-> _find_strengths(matches, resume, seed),
         recommendations |->
             _generate_matching_recommendations(gaps, matches, job, seed),
         compatibility_areas |-> _analyze_compatibility_areas(resume, job)]

(***************************************************************************)
(* Properties of the critical issues and the strengths of the heuristic    *)
(* scorers (specification Spec).                                           *)
(***************************************************************************)
\* a list names exactly the categories of a set, one entry for each
NamesExactly(list, cats) ==
    Range(list) = cats /\ Len(list) = Cardinality(cats)

MaxJobWords == 3

RECURSIVE SeqsUpTo(_, _)
SeqsUpTo(S, n) ==
    IF n = 0 THEN {<<>>}
    ELSE LET shorter == SeqsUpTo(S, n - 1)
         IN  shorter \cup {Append(s, x) : s \in shorter, x \in S}

\* two job descriptions long enough to have more than ten keywords: eight
\* words without a skill of the taxonomy, and the same with python added
LongJobTexts ==
    { <<"senior", "software", "experience", "years",
        "senior", "experience", "software", "years">>,
      <<"senior", "software", "experience", "years",
        "senior", "experience", "software", "years", "python">> }

JobTexts == SeqsUpTo(JobVocabulary, MaxJobWords) \cup LongJobTexts

ResumeTexts ==
    { <<>>,
      <<"python">>,
      <<"python", "sql">>,
      <<"with", "sql", "skills">>,
      <<"python", "sql", "experience", "years">>,
      <<"senior", "software", "leadership", "experience", "with", "python">> }

InitMatch ==
    /\ component = "matcher"
    /\ pc = "start"
    /\ resume_text \in ResumeTexts
    /\ job_description \in JobTexts
    /\ hash_seed \in HashSeeds
    /\ result = NoResult /\ second = NoResult
    /\ text = <<>> /\ scores = <<>>
    /\ use_ai = FALSE /\ model = "none" /\ attempt = 0
    /\ response = NoResult /\ ai_analysis = NoResult
    /\ raw_text = <<>> /\ planted = NoResult
    /\ NoRequests /\ NoFile /\ NoStore /\ NoPages

\* JobMatcher._rule_based_matching(resume_text, job_description)
RuleBasedMatching ==
    /\ component = "matcher" /\ pc = "start"
    /\ result' = _rule_based_matching(resume_text, job_description, hash_seed)
    /\ pc' = "matched"
    /\ UNCHANGED <<component, text, scores, resume_text, job_description,
                   hash_seed, second, aiVars, contactVars, restVars>>

\* the application is started again: a new interpreter, a new hash seed
RestartInterpreter ==
    /\ component = "matcher" /\ pc = "matched"
    /\ hash_seed' \in HashSeeds \ {hash_seed}
    /\ pc' = "restarted"
    /\ UNCHANGED <<component, text, scores, result, resume_text,
                   job_description, second, aiVars,
                   contactVars, restVars>>

\* the same call on the same two texts once more
RuleBasedMatchingAgain ==
    /\ component = "matcher" /\ pc \in {"matched", "restarted"}
    /\ second' = _rule_based_matching(resume_text, job_description, hash_seed)
    /\ pc' = "rerun"
    /\ UNCHANGED <<component, text, scores, result, resume_text,
                   job_description, hash_seed, aiVars,
                   contactVars, restVars>>

NextMatch ==
    \/ RuleBasedMatching
    \/ RestartInterpreter
    \/ RuleBasedMatchingAgain

SpecMatch == InitMatch /\ [][NextMatch]_vars

(***************************************************************************)
(* Properties of the job matcher (specification SpecMatch).                *)
(***************************************************************************)
JobKeywords == _extract_keywords(job_description)
Matches == _extract_keywords(resume_text) \cap JobKeywords

\* C3 (as claimed): match_score is in 0..100, it is 100 if and only if every
\* keyword of the job keyword set is in the match set, and it is 0 when the
\* job keyword set is empty.
C3_HundredIffAllMatched ==
    pc = "matched" =>
        /\ result.match_score \in 0..100
        /\ result.match_score = 100 <=> JobKeywords \subseteq Matches
        /\ JobKeywords = {} => result.match_score = 0

\* C3 (amended): match_score is 100 * |matches| / max(|job keywords|, 1)
\* rounded to a nearest integer and lies in 0..100; it is 0 when the job
\* keyword set is empty; when the set is not empty it is 100 if every job
\* keyword is matched, and it is 100 only if at most one job keyword in 200
\* is unmatched.
C3_MatchScore ==
    pc = "matched" =>
        LET wanted == Cardinality(JobKeywords)
            matched == Cardinality(Matches)
        IN  /\ result.match_score \in 0..100
            /\ IsNearest(result.match_score, 100 * matched, Max(wanted, 1))
            /\ wanted = 0 => result.match_score = 0
            /\ wanted > 0 /\ matched = wanted => result.match_score = 100
            /\ result.match_score = 100 =>
                   wanted > 0 /\ 200 * (wanted - matched) <= wanted

\* a job description whose keywords are all matched, and one that is matched
\* in part and scores between the ends
C3_Witness ==
    /\ pc = "matched"
    /\ JobKeywords # {}
    /\ Matches # {}
    /\ Matches # JobKeywords
    /\ result.match_score \in 1..99

\* the shortest job description the Job Matcher page hands to the matcher
\* has more words than this
MinJobWords == 20

NeutralAreas ==
    [technical_skills |-> 50, experience_level |-> 60,
     industry_knowledge |-> 70, soft_skills |-> 65]

\* C7 (as claimed): for a job description that is empty or shorter than 20
\* words the matching function returns match_score 0, no keyword_matches and
\* the neutral compatibility_areas.
C7_FailsClosed ==
    pc = "matched" /\ Len(job_description) < MinJobWords =>
        /\ result.match_score = 0
        /\ result.keyword_matches = <<>>
        /\ result.compatibility_areas = NeutralAreas

\* C9 (as claimed): the job matcher run twice on the same two texts returns
\* the same result in every field, the order of the list entries included.
C9_SameResultTwice ==
    pc = "rerun" => second = result

\* C19 (as claimed): the keyword set of a text contains every single word
\* longer than 3 letters that is not a stop word, every pair and every
\* triple of adjacent words without a stop word (overlapping ones
\* included), and every skill of the taxonomy that occurs in the text.
C19_EveryShingleExtracted ==
    pc = "matched" =>
        \A txt \in {job_description, resume_text} :
            LET keywords == _extract_keywords(txt)
                n == Len(txt)
            IN  /\ \A i \in 1..n :
                       (WordLen(txt[i]) > 3 /\ txt[i] \notin stop_words)
                           => <<txt[i]>> \in keywords
                /\ \A i \in 1..(n - 1) :
                       Range(SubSeq(txt, i, i + 1)) \cap stop_words = {}
                           => SubSeq(txt, i, i + 1) \in keywords
                /\ \A i \in 1..(n - 2) :
                       Range(SubSeq(txt, i, i + 2)) \cap stop_words = {}
                           => SubSeq(txt, i, i + 2) \in keywords
                /\ \A skill \in AllSkills :
                       Occurs(skill, txt) => skill \in keywords

\* the gap set of _rule_based_matching
GapSet == JobKeywords \ _extract_keywords(resume_text)

\* the entries of skill_gaps that stand for a skill of the taxonomy come
\* first; there are this many of them
SkillGapCount == Min(Cardinality(GapSet \cap AllSkills), 10)

SkillGapsWellFormed ==
    LET sg == result.skill_gaps
    IN  /\ Len(sg) <= 10
        /\ Len(sg) >= SkillGapCount
        /\ \A i \in 1..SkillGapCount :
               sg[i].title \in GapSet \cap AllSkills
        /\ \A i \in (SkillGapCount + 1)..Len(sg) :
               sg[i] \in GapSet \ AllSkills
        /\ \A i, j \in 1..SkillGapCount : i # j => sg[i].title # sg[j].title
        /\ \A i, j \in (SkillGapCount + 1)..Len(sg) : i # j => sg[i] # sg[j]

\* C21 (as claimed): skill_gaps has at most 10 entries and no duplicates,
\* the gaps of the skills taxonomy come first, and other gaps are added
\* until the list has 10 entries or no gap is left.
C21_ToppedUpToTen ==
    pc = "matched" =>
        /\ SkillGapsWellFormed
        /\ Len(result.skill_gaps) = Min(10, Cardinality(GapSet))

\* C21 (amended): skill_gaps has at most 10 entries and no duplicates, the
\* gaps of the skills taxonomy come first, and at most 5 other gaps are
\* added, the list being cut after 10 entries.
C21_ToppedUpByFive ==
    pc = "matched" =>
        /\ SkillGapsWellFormed
        /\ Len(result.skill_gaps) =
               Min(10, Cardinality(GapSet \cap AllSkills)
                       + Min(5, Cardinality(GapSet \ AllSkills)))

\* ten gaps, none of them a skill of the taxonomy: five are listed
C21_Witness ==
    /\ pc = "matched"
    /\ GapSet \cap AllSkills = {}
    /\ Cardinality(GapSet) >= 10
    /\ Len(result.skill_gaps) = 5

FoundEntries == SelectSeq(result.keyword_matches, LAMBDA e : e.found)
MissingEntries == SelectSeq(result.keyword_matches, LAMBDA e : ~e.found)
KeywordsOf(entries) == {entries[i].keyword : i \in 1..Len(entries)}
Important(S) ==
    {g \in S :
        _determine_keyword_importance(g, job_description)
            \in {"high", "medium"}}

\* one found=true entry per keyword of the match set; at most 10
\* found=false entries, all of them gap keywords of importance high or
\* medium
KeywordMatchesWellFormed ==
    /\ KeywordsOf(FoundEntries) = Matches
    /\ Len(FoundEntries) = Cardinality(Matches)
    /\ Len(MissingEntries) <= 10
    /\ KeywordsOf(MissingEntries) \subseteq Important(GapSet)
    /\ \A i \in 1..Len(result.keyword_matches) :
           result.keyword_matches[i].importance =
               _determine_keyword_importance(
                   result.keyword_matches[i].keyword, job_description)

\* C22 (as claimed): one found=true entry per keyword of the match set, at
\* most 10 found=false entries, each a gap keyword of importance high or
\* medium; such a gap keyword is left out only when 10 found=false entries
\* are present.
C22_LeftOutOnlyWhenTen ==
    pc = "matched" =>
        /\ KeywordMatchesWellFormed
        /\ (Important(GapSet) \ KeywordsOf(MissingEntries) # {})
               => Len(MissingEntries) = 10

\* C22 (amended): one found=true entry per keyword of the match set; the
\* found=false entries are the keywords of importance high or medium among
\* 10 keywords of the gap set (among all of them when there are fewer), so
\* there are at most 10 of them.
C22_FilteredAfterTen ==
    pc = "matched" =>
        /\ KeywordMatchesWellFormed
        /\ Len(MissingEntries) = Cardinality(KeywordsOf(MissingEntries))
        /\ \E first \in SUBSET GapSet :
               /\ Cardinality(first) = Min(10, Cardinality(GapSet))
               /\ KeywordsOf(MissingEntries) = Important(first)

\* more than ten gaps: a keyword of importance high or medium is left out
\* although fewer than 10 found=false entries are present
C22_Witness ==
    /\ pc = "matched"
    /\ Cardinality(GapSet) > 10
    /\ Important(GapSet) \ KeywordsOf(MissingEntries) # {}
    /\ Len(MissingEntries) \in 1..9

\* C29: the match set and the gap set are disjoint and their union is the
\* job keyword set; every found=true entry of keyword_matches is in the
\* match set, every found=false entry in the gap set, and no keyword has
\* two entries.
C29_MatchesAndGapsPartition ==
    pc = "matched" =>
        /\ Matches \cap GapSet = {}
        /\ Matches \cup GapSet = JobKeywords
        /\ KeywordsOf(FoundEntries) \subseteq Matches
        /\ KeywordsOf(MissingEntries) \subseteq GapSet
        /\ Cardinality(KeywordsOf(result.keyword_matches))
               = Len(result.keyword_matches)

\* a result with entries of both kinds
C29_Witness ==
    /\ pc = "matched"
    /\ FoundEntries # <<>>
    /\ MissingEntries # <<>>
    /\ Matches # {} /\ GapSet # {}

\* the importance tier as the claim defines it: the technical list only
ClaimedTier(keyword, job) ==
    LET keyword_count == CountOccurrences(keyword, job)
        in_section ==
            \E i \in 1..(Len(job) - 1) :
                /\ job[i] \in section_words
                /\ \A j \in 1..(i - 1) : job[j] \notin section_words
                /\ Occurs(keyword, SubSeq(job, i + 1, Len(job)))
        technical == keyword \in Range(common_skills.technical)
    IN  IF keyword_count >= 3 \/ in_section THEN "high"
        ELSE IF keyword_count >= 2 \/ technical THEN "medium"
        ELSE "low"

\* C20 (as claimed): a keyword is "high" if it occurs at least 3 times in
\* the job text or lies in the requirements section, otherwise "medium" if
\* it occurs at least 2 times or is in the technical-skill list, otherwise
\* "low".
C20_ImportanceTiers ==
    pc = "matched" =>
        \A i \in 1..Len(result.keyword_matches) :
            result.keyword_matches[i].importance =
                ClaimedTier(result.keyword_matches[i].keyword, job_description)

(***************************************************************************)
(* The AI adapter (src/utils/gemini_client.py) and its two callers.        *)
(*                                                                         *)
(* The text of a reply is a sequence of pieces: an opening brace, a        *)
(* closing brace, a stretch of prose, or a member of a JSON object.  The   *)
(* member of interest is the score the caller reads ("ats_score" for the   *)
(* ATS check, "match_score" for the job match) with its JSON value; one    *)
(* more piece stands for all the other members of the documented answer.   *)
(***************************************************************************)
Piece(tok, type, n) == [tok |-> tok, type |-> type, n |-> n]

OpenBrace == Piece("{", "", 0)
CloseBrace == Piece("}", "", 0)
Prose == Piece("prose", "", 0)
OtherFields == Piece("other_fields", "", 0)

Number(n) == [type |-> "number", n |-> n]
ScoreValues ==
    { [type |-> "null", n |-> 0], [type |-> "string", n |-> 0],
      Number(0), Number(78), Number(150) }

ScoreMember(v) == Piece("score", v.type, v.n)

ReplyPieces ==
    {OpenBrace, CloseBrace, Prose, OtherFields}
    \cup {ScoreMember(v) : v \in ScoreValues}

MaxReplyLen == 4

\* the texts the service can answer with; the empty text is the empty
\* response of AttemptEmpty
Replies == SeqsUpTo(ReplyPieces, MaxReplyLen) \ {<<>>}

\* _make_request(prompt, max_retries = 3)
max_retries == 3

None == [none |-> TRUE, text |-> <<>>]
Text(r) == [none |-> FALSE, text |-> r]

\* s.find(piece): the 0-based index of the first one, or -1
find(s, piece) ==
    LET at == {i \in 1..Len(s) : s[i] = piece}
    IN  IF at = {} THEN -1
        ELSE (CHOOSE i \in at : \A j \in at : i <= j) - 1

\* s.rfind(piece): the 0-based index of the last one, or -1
rfind(s, piece) ==
    LET at == {i \in 1..Len(s) : s[i] = piece}
    IN  IF at = {} THEN -1
        ELSE (CHOOSE i \in at : \A j \in at : i >= j) - 1

\* s[from:to] with 0-based from and exclusive to
Slice(s, from, to) == SubSeq(s, from + 1, to)

\* json.loads(s) of a text that begins with the first opening brace and ends
\* with the last closing brace: an object if only members stand in between
\* (a member given twice keeps its last value), JSONDecodeError otherwise
json_loads(s) ==
    LET inner == SubSeq(s, 2, Len(s) - 1)
        members == {"score", "other_fields"}
        well_formed ==
            /\ Len(s) >= 2
            /\ s[1] = OpenBrace /\ s[Len(s)] = CloseBrace
            /\ \A i \in 1..Len(inner) : inner[i].tok \in members
        score_at == {i \in 1..Len(inner) : inner[i].tok = "score"}
        last == inner[CHOOSE i \in score_at : \A j \in score_at : i >= j]
    IN  IF ~well_formed THEN [ok |-> FALSE, value |-> NoResult]
        ELSE [ok |-> TRUE,
              value |->
                [kind |-> "json",
                 has_score |-> score_at # {},
                 score |-> IF score_at # {}
                           THEN [type |-> last.type, n |-> last.n]
                           ELSE Number(0),
                 other_fields |->
                     \E i \in 1..Len(inner) : inner[i].tok = "other_fields"]]

\* GeminiClient._fallback_ats_analysis()
_fallback_ats_analysis ==
    [kind |-> "ats",
     ats_score |-> 0,
     categories |->
         [c \in DOMAIN scoring_categories |->
            [score |-> 0, issues |-> <<"Analysis unavailable">>]],
     recommendations |-> <<"AI service temporarily unavailable">>,
     critical_issues |-> <<>>,
     strengths |-> <<>>]

\* GeminiClient._fallback_job_match()
_fallback_job_match ==
    [kind |-> "match",
     match_score |-> 0,
     keyword_matches |-> <<>>,
     skill_gaps |-> <<>>,
     strengths |-> <<>>,
     recommendations |->
         << [advice |-> "AI service temporarily unavailable", about |-> <<>>] >>,
     compatibility_areas |->
         [technical_skills |-> 0, experience_level |-> 0,
          industry_knowledge |-> 0, soft_skills |-> 0]]

\* what check_ats_compatibility, match_job_description do with the response
\* of _make_request
ParseResponse(resp, fallback) ==
    IF resp.none \/ resp.text = <<>> THEN fallback
    ELSE LET json_start == find(resp.text, OpenBrace)
             json_end == rfind(resp.text, CloseBrace) + 1
             parsed == json_loads(Slice(resp.text, json_start, json_end))
         IN  IF json_start # -1 /\ json_end # 0 /\ parsed.ok
             THEN parsed.value
             ELSE fallback

\* GeminiClient.check_ats_compatibility(resume_text), after the request
check_ats_compatibility(resp) == ParseResponse(resp, _fallback_ats_analysis)

\* GeminiClient.match_job_description(resume_text, job_description), after
\* the request
match_job_description(resp) == ParseResponse(resp, _fallback_job_match)

\* d.get(key, 0) for the score key of the caller
GetScore(d) ==
    IF d.kind = "json" THEN (IF d.has_score THEN d.score ELSE Number(0))
    ELSE IF d.kind = "ats" THEN Number(d.ats_score)
    ELSE Number(d.match_score)

\* value > 0: TypeError for None and for a string
Decide(ai, rule_based) ==
    IF GetScore(ai).type # "number"
    THEN [kind |-> "raised", error |-> "TypeError"]
    ELSE IF GetScore(ai).n > 0 THEN ai
    ELSE rule_based

\* a caller that returns whatever the adapter returned
analyze_ats_compatibility_trusting(ai_result, rule_based) == ai_result

\* ATSChecker.analyze_ats_compatibility, once the adapter has returned
analyze_ats_compatibility(ai_result, rule_based) == Decide(ai_result, rule_based)

\* JobMatcher.match_resume_to_job, once the adapter has returned
match_resume_to_job(ai_result, rule_based) == Decide(ai_result, rule_based)

(***************************************************************************)
(* The two callers as a state machine.                                     *)
(***************************************************************************)
Callers == {"analyze_ats_compatibility", "match_resume_to_job"}

\* the resume texts the ATS check is run on: a blank one and a full one
AITexts ==
    { [words |-> 0, email |-> FALSE, phone |-> FALSE, sections |-> {}],
      [words |-> 450, email |-> TRUE, phone |-> TRUE,
       sections |-> SectionWords] }

\* the measurements of each of these texts
AIView(base) ==
    IF base.words = 0 THEN UtilsBlank(base)
    ELSE [UtilsBlank(base) EXCEPT
            !.special_chars = 5, !.nonblank_lines = 10, !.keyword_count = 5,
            !.action_verb_count = 3, !.linkedin = TRUE, !.location = TRUE,
            !.headers = 2, !.bullets = TRUE, !.sentences = 10,
            !.long_sentences = 3, !.starters = 10, !.distinct_starters = 5]

\* the resume and the job descriptions of the job match
AIResumeTexts == { <<"python", "sql">> }
AIJobTexts == { <<>>, <<"python", "skills", "sql", "software">> }

\* the rule-based results of the texts above, worked out once
RuleBasedAnalyses == [t \in AITexts |-> _rule_based_analysis(AIView(t))]

RuleBasedMatches ==
    [r \in AIResumeTexts, j \in AIJobTexts |->
       _rule_based_matching(r, j, "seed_a")]

\* the rule-based result of the caller that runs
RuleBased ==
    IF component = "analyze_ats_compatibility"
    THEN RuleBasedAnalyses[text]
    ELSE RuleBasedMatches[resume_text, job_description]

InitAI ==
    /\ component \in Callers
    /\ pc = "start"
    /\ use_ai \in BOOLEAN
    /\ model \in {"none", "connected"}
    /\ attempt = 0
    /\ response = None
    /\ ai_analysis = NoResult
    /\ result = NoResult /\ second = NoResult /\ scores = <<>>
    /\ hash_seed = "seed_a"
    /\ raw_text = <<>> /\ planted = NoResult
    /\ NoRequests /\ NoFile /\ NoStore /\ NoPages
    /\ IF component = "analyze_ats_compatibility"
       THEN /\ text \in AITexts
            /\ resume_text = <<>> /\ job_description = <<>>
       ELSE /\ text = <<>>
            /\ resume_text \in AIResumeTexts
            /\ job_description \in AIJobTexts

\* use_ai is off or there is no model: the rule-based path at once
WithoutAI ==
    /\ component \in Callers /\ pc = "start"
    /\ ~(use_ai /\ model = "connected")
    /\ result' = RuleBased
    /\ pc' = "done"
    /\ UNCHANGED <<component, text, scores, matchVars, use_ai, model, attempt,
                   response, ai_analysis,
                   contactVars, restVars>>

\* the caller calls the adapter, which sends its prompt
CallAdapter ==
    /\ component \in Callers /\ pc = "start"
    /\ use_ai /\ model = "connected"
    /\ pc' = "request"
    /\ UNCHANGED <<component, text, scores, result, matchVars, use_ai, model,
                   attempt, response, ai_analysis,
                   contactVars, restVars>>

\* after an attempt that brought no text: the next attempt, or None after
\* the last one
AfterFailedAttempt ==
    /\ attempt' = attempt + 1
    /\ IF attempt + 1 = max_retries
       THEN pc' = "responded" /\ response' = None
       ELSE pc' = "request" /\ UNCHANGED response
    /\ UNCHANGED <<component, text, scores, result, matchVars, use_ai, model,
                   ai_analysis,
                   contactVars, restVars>>

\* _make_request: generate_content raises
AttemptRaises ==
    /\ component \in Callers /\ pc = "request" /\ attempt < max_retries
    /\ AfterFailedAttempt

\* _make_request: the response is empty
AttemptEmpty ==
    /\ component \in Callers /\ pc = "request" /\ attempt < max_retries
    /\ AfterFailedAttempt

\* _make_request: the response has a text, which is returned
AttemptAnswers ==
    /\ component \in Callers /\ pc = "request" /\ attempt < max_retries
    /\ \E r \in Replies : response' = Text(r)
    /\ pc' = "responded"
    /\ UNCHANGED <<component, text, scores, result, matchVars, use_ai, model,
                   attempt, ai_analysis,
                   contactVars, restVars>>

\* the adapter turns the response into its return value
AdapterReturns ==
    /\ component \in Callers /\ pc = "responded"
    /\ ai_analysis' = IF component = "analyze_ats_compatibility"
                      THEN check_ats_compatibility(response)
                      ELSE match_job_description(response)
    /\ pc' = "parsed"
    /\ UNCHANGED <<component, text, scores, result, matchVars, use_ai, model,
                   attempt, response,
                   contactVars, restVars>>

\* the caller returns the adapter's result or the rule-based one, or raises
CallerReturns ==
    /\ component \in Callers /\ pc = "parsed"
    /\ result' = IF component = "analyze_ats_compatibility"
                 THEN analyze_ats_compatibility(ai_analysis, RuleBased)
                 ELSE match_resume_to_job(ai_analysis, RuleBased)
    /\ pc' = "done"
    /\ UNCHANGED <<component, text, scores, matchVars, use_ai, model, attempt,
                   response, ai_analysis,
                   contactVars, restVars>>

NextAI ==
    \/ WithoutAI
    \/ CallAdapter
    \/ AttemptRaises
    \/ AttemptEmpty
    \/ AttemptAnswers
    \/ AdapterReturns
    \/ CallerReturns

SpecAI == InitAI /\ [][NextAI]_vars

(***************************************************************************)
(* Properties of the AI adapter and its callers (specification SpecAI).    *)
(***************************************************************************)
Placeholder ==
    IF component = "analyze_ats_compatibility" THEN _fallback_ats_analysis
    ELSE _fallback_job_match

\* the text has no brace, no closing brace after an opening one, or
\* something else than members between its first opening and its last
\* closing brace
Malformed(r) ==
    LET opens == {i \in 1..Len(r) : r[i] = OpenBrace}
        closes == {i \in 1..Len(r) : r[i] = CloseBrace}
    IN  \/ opens = {}
        \/ closes = {}
        \/ LET first == CHOOSE i \in opens : \A j \in opens : i <= j
               last == CHOOSE i \in closes : \A j \in closes : i >= j
           IN  \/ last < first
               \/ \E i \in (first + 1)..(last - 1) :
                      r[i].tok \notin {"score", "other_fields"}

\* C5: when the reply is malformed or truncated JSON the adapter returns its
\* placeholder without raising, and the caller returns the rule-based
\* result, never the placeholder.
C5_MalformedReplyFallsBack ==
    ~response.none /\ Malformed(response.text) =>
        /\ pc \in {"parsed", "done"} => ai_analysis = Placeholder
        /\ pc = "done" => result = RuleBased /\ result # Placeholder

\* a reply with something that is no member between its braces went all the
\* way through a caller
C5_Witness ==
    /\ pc = "done"
    /\ ~response.none
    /\ find(response.text, OpenBrace) # -1
    /\ find(response.text, OpenBrace) < rfind(response.text, CloseBrace)
    /\ Malformed(response.text)
    /\ result = RuleBased

\* the result has the fields of its kind and a score in 0..100
WellFormedResult(r) ==
    CASE r.kind = "ats" -> r.ats_score \in 0..100
      [] r.kind = "match" -> r.match_score \in 0..100
      [] r.kind = "json" ->
            /\ r.has_score /\ r.other_fields
            /\ r.score.type = "number" /\ r.score.n \in 0..100
      [] OTHER -> FALSE

\* C6 (as claimed): whatever the AI call brings, the caller returns without
\* raising a result of the expected shape with its score in 0..100.
C6_AlwaysWellFormedResult ==
    pc = "done" => WellFormedResult(result)

(***************************************************************************)
(* Contact extraction (src/utils/resume_parser.py, extract_contact_info).  *)
(*                                                                         *)
(* Here a text is the sequence of its characters, and a regular expression *)
(* is matched the way re.search matches it: at the leftmost position where *)
(* it can match, every quantifier taking as much as the rest of the        *)
(* pattern allows.  A pattern is a list of alternatives in the order in    *)
(* which re tries them ((?:X)?Y is X Y before Y); an alternative is a list *)
(* of items, each a word boundary or a character class with its least and  *)
(* greatest number of repetitions.                                         *)
(***************************************************************************)
Lower ==
    {"a", "b", "c", "d", "e", "f", "g", "h", "i", "j", "k", "l", "m", "n",
     "o", "p", "q", "r", "s", "t", "u", "v", "w", "x", "y", "z"}
Upper ==
    {"A", "B", "C", "D", "E", "F", "G", "H", "I", "J", "K", "L", "M", "N",
     "O", "P", "Q", "R", "S", "T", "U", "V", "W", "X", "Y", "Z"}
Digits == {"0", "1", "2", "3", "4", "5", "6", "7", "8", "9"}
Whitespace == {" "}

\* \w
IsWordChar(c) == c \in Lower \cup Upper \cup Digits \cup {"_"}

\* as many repetitions as the text has room for
Unbounded == -1

Boundary == [kind |-> "boundary", set |-> {}, min |-> 0, max |-> 0]
Class(set, min, max) == [kind |-> "class", set |-> set, min |-> min, max |-> max]
One(c) == Class({c}, 1, 1)
Optional(set) == Class(set, 0, 1)
OneOrMore(set) == Class(set, 1, Unbounded)
ZeroOrMore(set) == Class(set, 0, Unbounded)

\* the characters of a literal, one item each
Literal(chars) == [i \in 1..Len(chars) |-> One(chars[i])]

\* \b before the character at p (p = Len(txt) + 1: at the end of the text)
AtBoundary(txt, p) ==
    LET before == p > 1 /\ IsWordChar(txt[p - 1])
        after == p <= Len(txt) /\ IsWordChar(txt[p])
    IN  before # after

\* how many characters of set follow each other from p on, at most cap
RECURSIVE RunLength(_, _, _, _)
RunLength(set, txt, p, cap) ==
    IF cap = 0 \/ p > Len(txt) \/ txt[p] \notin set THEN 0
    ELSE 1 + RunLength(set, txt, p + 1, cap - 1)

\* where the match of items k, k+1, ... that starts at p ends (the position
\* after its last character), or 0 if there is none
RECURSIVE MatchItems(_, _, _, _)
MatchItems(items, k, txt, p) ==
    IF k > Len(items) THEN p
    ELSE LET it == items[k]
         IN  IF it.kind = "boundary"
             THEN IF AtBoundary(txt, p) THEN MatchItems(items, k + 1, txt, p)
                  ELSE 0
             ELSE LET cap == IF it.max = Unbounded THEN Len(txt) ELSE it.max
                      run == RunLength(it.set, txt, p, cap)
                      ends == [n \in it.min..run |->
                                 MatchItems(items, k + 1, txt, p + n)]
                      good == {n \in it.min..run : ends[n] # 0}
                  IN  IF good = {} THEN 0
                      ELSE ends[CHOOSE n \in good : \A m \in good : n >= m]

NoMatch == [found |-> FALSE, start |-> 0, end |-> 0, alternative |-> 0]

\* re.search(pattern, txt)
search(pattern, txt) ==
    LET matches(p, a) == MatchItems(pattern[a], 1, txt, p) # 0
        starts == {p \in 1..(Len(txt) + 1) :
                     \E a \in 1..Len(pattern) : matches(p, a)}
    IN  IF starts = {} THEN NoMatch
        ELSE LET p == CHOOSE q \in starts : \A r \in starts : q <= r
                 alts == {a \in 1..Len(pattern) : matches(p, a)}
                 a == CHOOSE b \in alts : \A c \in alts : b <= c
             IN  [found |-> TRUE, start |-> p,
                  end |-> MatchItems(pattern[a], 1, txt, p),
                  alternative |-> a]

\* match.group(): None, or the characters that were matched
NotFound == [found |-> FALSE, value |-> <<>>]
Found(chars) == [found |-> TRUE, value |-> chars]
group(m, txt) ==
    IF m.found THEN Found(SubSeq(txt, m.start, m.end - 1)) ELSE NotFound

\* r'\b[A-Za-z0-9._%+-]+@[A-Za-z0-9.-]+\.[A-Z|a-z]{2,}\b'
email_pattern ==
    << << Boundary,
          OneOrMore(Lower \cup Upper \cup Digits \cup {".", "_", "%", "+", "-"}),
          One("@"),
          OneOrMore(Lower \cup Upper \cup Digits \cup {".", "-"}),
          One("."),
          Class(Lower \cup Upper \cup {"|"}, 2, Unbounded),
          Boundary >> >>

Separator == Optional({"-", "."} \cup Whitespace)
ThreeDigits == Class(Digits, 3, 3)
FourDigits == Class(Digits, 4, 4)

\* \(?[0-9]{3}\)?[-.\s]?[0-9]{3}[-.\s]?[0-9]{4}\b
PhoneTail ==
    << Optional({"("}), ThreeDigits, Optional({")"}), Separator, ThreeDigits,
       Separator, FourDigits, Boundary >>

phone_patterns ==
    << \* r'\b(?:\+?1[-.\s]?)?\(?[0-9]{3}\)?[-.\s]?[0-9]{3}[-.\s]?[0-9]{4}\b'
       << <<Boundary, Optional({"+"}), One("1"), Separator>> \o PhoneTail,
          <<Boundary>> \o PhoneTail >>,
       \* r'\b[0-9]{3}-[0-9]{3}-[0-9]{4}\b'
       << <<Boundary, ThreeDigits, One("-"), ThreeDigits, One("-"), FourDigits,
            Boundary>> >>,
       \* r'\b\([0-9]{3}\) [0-9]{3}-[0-9]{4}\b'
       << <<Boundary, One("("), ThreeDigits, One(")"), One(" "), ThreeDigits,
            One("-"), FourDigits, Boundary>> >> >>

\* the text folded to lower case (re.IGNORECASE on a pattern in lower case);
\* the texts below have no capital letter
lower(txt) == txt

linkedin_in == <<"l", "i", "n", "k", "e", "d", "i", "n", ".", "c", "o", "m", "/", "i", "n", "/">>
linkedin_pub == <<"l", "i", "n", "k", "e", "d", "i", "n", ".", "c", "o", "m", "/", "p", "u", "b", "/">>

\* r'(?:linkedin\.com/in/|linkedin\.com/pub/)([A-Za-z0-9-]+)'
linkedin_pattern ==
    << Literal(linkedin_in) \o <<OneOrMore(Lower \cup Upper \cup Digits \cup {"-"})>>,
       Literal(linkedin_pub) \o <<OneOrMore(Lower \cup Upper \cup Digits \cup {"-"})>> >>

\* r'\b([A-Z][a-z]+(?:\s+[A-Z][a-z]+)*),\s*([A-Z]{2})\b' with its group
\* repeated once or not at all; both alternatives begin with a capital
\* letter
location_pattern ==
    LET name == <<Class(Upper, 1, 1), OneOrMore(Lower)>>
        state == <<One(","), ZeroOrMore(Whitespace), Class(Upper, 2, 2), Boundary>>
    IN  << <<Boundary>> \o name \o <<OneOrMore(Whitespace)>> \o name \o state,
           <<Boundary>> \o name \o state >>

\* the first pattern of the list that matches decides
FirstPhoneMatch(txt) ==
    LET hits == {i \in 1..Len(phone_patterns) : search(phone_patterns[i], txt).found}
    IN  IF hits = {} THEN NotFound
        ELSE group(search(phone_patterns[CHOOSE i \in hits : \A j \in hits : i <= j],
                          txt), txt)

\* ResumeParser.extract_contact_info(text)
extract_contact_info(txt) ==
    LET linkedin_match == search(linkedin_pattern, lower(txt))
        prefix == IF linkedin_match.alternative = 1 THEN linkedin_in
                  ELSE linkedin_pub
    IN  [kind |-> "contact",
         email |-> group(search(email_pattern, txt), txt),
         phone |-> FirstPhoneMatch(txt),
         linkedin |->
             IF linkedin_match.found
             THEN Found(linkedin_in
                        \o SubSeq(txt, linkedin_match.start + Len(prefix),
                                  linkedin_match.end - 1))
             ELSE NotFound,
         location |-> group(search(location_pattern, txt), txt)]

(***************************************************************************)
(* Contact extraction as a state machine: a text with one e-mail address   *)
(* and one phone number planted in it, and one with a further address or   *)
(* a further number after them.                                            *)
(***************************************************************************)
Emails ==
    { <<"j", "d", "@", "x", ".", "c", "o">>,
      <<"j", ".", "d", "@", "x", "-", "y", ".", "o", "r", "g">> }

\* US formats of the number 555 123 4567
Phones ==
    { <<"5", "5", "5", "-", "1", "2", "3", "-", "4", "5", "6", "7">>,
      <<"5", "5", "5", ".", "1", "2", "3", ".", "4", "5", "6", "7">>,
      <<"5", "5", "5", " ", "1", "2", "3", " ", "4", "5", "6", "7">>,
      <<"5", "5", "5", "1", "2", "3", "4", "5", "6", "7">>,
      <<"(", "5", "5", "5", ")", " ", "1", "2", "3", "-", "4", "5", "6", "7">>,
      <<"(", "5", "5", "5", ")", "1", "2", "3", "-", "4", "5", "6", "7">>,
      <<"1", "-", "5", "5", "5", "-", "1", "2", "3", "-", "4", "5", "6", "7">>,
      <<"+", "1", " ", "5", "5", "5", "-", "1", "2", "3", "-", "4", "5", "6", "7">>,
      <<"+", "1", " ", "(", "5", "5", "5", ")", " ", "1", "2", "3", "-", "4", "5", "6", "7">> }

\* a second phone number
MorePhones ==
    { <<"5", "5", "5", "-", "9", "8", "7", "-", "6", "5", "4", "3">> }

\* what stands before the two, between them and after them
Leads == { <<>>, <<"j", "o", " ", "d", "o", "e", ",", " ">> }
Gaps == { <<" ">>, <<",", " ">>, <<" ", "|", " ">> }
Trails == { <<>>, <<" ", "a", "u", "s", "t", "i", "n">> }

InitContact ==
    /\ component = "extract_contact_info"
    /\ pc = "start"
    /\ planted \in [email : Emails, phone : Phones,
                    more : {<<>>} \cup Emails \cup MorePhones]
    /\ planted.more # planted.email
    /\ \E lead \in Leads, gap \in Gaps, trail \in Trails :
          LET further == IF planted.more = <<>> THEN <<>>
                         ELSE gap \o planted.more
          IN  \/ raw_text = lead \o planted.email \o gap \o planted.phone
                             \o further \o trail
              \/ raw_text = lead \o planted.phone \o gap \o planted.email
                             \o further \o trail
    /\ result = NoResult /\ second = NoResult
    /\ text = <<>> /\ scores = <<>>
    /\ resume_text = <<>> /\ job_description = <<>> /\ hash_seed = "none"
    /\ use_ai = FALSE /\ model = "none" /\ attempt = 0
    /\ response = NoResult /\ ai_analysis = NoResult
    /\ NoRequests /\ NoFile /\ NoStore /\ NoPages

\* ResumeParser.extract_contact_info(text)
ExtractContactInfo ==
    /\ component = "extract_contact_info" /\ pc = "start"
    /\ result' = extract_contact_info(raw_text)
    /\ pc' = "done"
    /\ UNCHANGED <<component, text, scores, matchVars, aiVars, raw_text, planted,
                   restVars>>

NextContact == ExtractContactInfo

SpecContact == InitContact /\ [][NextContact]_vars

(***************************************************************************)
(* Properties of the contact extraction (specification SpecContact).       *)
(***************************************************************************)
\* C10 (as claimed): from a text with exactly one well-formed e-mail address
\* and exactly one well-formed US phone number the extraction reports
\* exactly that address and exactly that number.
C10_ExactEmailAndPhone ==
    (pc = "done" /\ planted.more = <<>>) =>
        /\ result.email = Found(planted.email)
        /\ result.phone = Found(planted.phone)

\* the addresses and the numbers of the extracted contact information
ExtractedEmails == IF result.email.found THEN {result.email.value} ELSE {}
ExtractedPhones == IF result.phone.found THEN {result.phone.value} ELSE {}

\* C24 (as claimed): from a text with several distinct e-mail addresses (or
\* several phone numbers) every one of them is in the extracted contact
\* information.
C24_EveryMatchCollected ==
    (pc = "done" /\ planted.more # <<>>) =>
        /\ planted.more \in Emails =>
              {planted.email, planted.more} \subseteq ExtractedEmails
        /\ planted.more \in MorePhones =>
              planted.more \in ExtractedPhones

(***************************************************************************)
(* The request path of the AI adapter: the _rate_limit wrapper and the     *)
(* retry loop of _make_request, with the clock (specification              *)
(* SpecRequest).  Time is counted in whole seconds.  One caller runs one   *)
(* adapter operation after the other; every operation enters               *)
(* _make_request once.                                                     *)
(***************************************************************************)
\* GeminiClient.rate_limit_delay
rate_limit_delay == 4

\* how many adapter operations the caller runs
MaxRequests == 2

\* time.time() when the first operation starts: last_request_time starts
\* at 0 and the clock counts from 1970, so the first operation never sleeps
ProcessStart == rate_limit_delay + 1

\* how long one generate_content call can take
CallSeconds == {0, 1}

\* how long the caller can wait between two operations
IdleSeconds == {0, 2, 5}

\* the exceptions generate_content can raise
Failures == {"transient", "quota", "authorization"}

\* the text of a non-empty response
Answer == Text(<<Prose>>)

RECURSIVE Pow2(_)
Pow2(n) == IF n = 0 THEN 1 ELSE 2 * Pow2(n - 1)

\* a backoff that does not grow
BackoffFixed(a) == 1

\* time.sleep(2 ** attempt)
Backoff(a) == Pow2(a)

\* the sleep of the except branch after attempt number a (counted from 0)
SleepAfterException(a) == IF a < max_retries - 1 THEN Backoff(a) ELSE 0

InitRequest ==
    /\ component = "gemini_client"
    /\ pc = "start"
    /\ model \in {"none", "connected"}
    /\ now = ProcessStart
    /\ last_request_time = 0 /\ request_count = 0
    /\ attempt = 0 /\ outcome = "none" /\ backoff = 0
    /\ previous_call = -1 /\ latest_call = -1
    /\ response = None
    /\ use_ai = TRUE /\ ai_analysis = NoResult
    /\ result = NoResult /\ second = NoResult
    /\ text = <<>> /\ scores = <<>>
    /\ resume_text = <<>> /\ job_description = <<>> /\ hash_seed = "none"
    /\ raw_text = <<>> /\ planted = NoResult
    /\ NoFile /\ NoStore /\ NoPages

\* the wrapper of _rate_limit, and the entry of _make_request
RateLimit ==
    /\ component = "gemini_client" /\ pc = "start"
    /\ request_count < MaxRequests
    /\ LET current_time == now
           time_since_last == current_time - last_request_time
           sleep_time == IF time_since_last < rate_limit_delay
                         THEN rate_limit_delay - time_since_last
                         ELSE 0
       IN  /\ now' = now + sleep_time
           /\ last_request_time' = now + sleep_time
    /\ request_count' = request_count + 1
    /\ attempt' = 0 /\ outcome' = "none" /\ backoff' = 0
    /\ response' = None
    /\ pc' = IF model = "none" THEN "returned" ELSE "request"
    /\ UNCHANGED <<component, text, scores, result, matchVars, use_ai, model,
                   ai_analysis, previous_call, latest_call,
                   contactVars, fileVars, storeVars, pageVars>>

\* one more call of generate_content, made at the time now
ModelCalled ==
    /\ component = "gemini_client" /\ pc = "request" /\ attempt < max_retries
    /\ previous_call' = latest_call
    /\ latest_call' = now
    /\ UNCHANGED <<component, text, scores, result, matchVars, use_ai, model,
                   ai_analysis, last_request_time, request_count,
                   contactVars, fileVars, storeVars, pageVars>>

\* the loop goes on to the next attempt, or ends and None is returned
NextAttempt ==
    /\ attempt' = attempt + 1
    /\ pc' = IF attempt + 1 = max_retries THEN "returned" ELSE "request"
    /\ response' = None

\* generate_content raises: the except branch sleeps, except after the
\* last attempt
GenerateContentRaises ==
    /\ ModelCalled
    /\ \E kind \in Failures : outcome' = kind
    /\ backoff' = SleepAfterException(attempt)
    /\ \E d \in CallSeconds : now' = now + d + SleepAfterException(attempt)
    /\ NextAttempt

\* the response is empty: a warning is logged and the loop goes on
GenerateContentEmpty ==
    /\ ModelCalled
    /\ outcome' = "empty"
    /\ backoff' = 0
    /\ \E d \in CallSeconds : now' = now + d
    /\ NextAttempt

\* the response has a text, which is returned
GenerateContentAnswers ==
    /\ ModelCalled
    /\ outcome' = "text"
    /\ backoff' = 0
    /\ \E d \in CallSeconds : now' = now + d
    /\ response' = Answer
    /\ pc' = "returned"
    /\ UNCHANGED attempt

\* the caller takes the return value and, later, starts its next operation
NextOperation ==
    /\ component = "gemini_client" /\ pc = "returned"
    /\ request_count < MaxRequests
    /\ \E d \in IdleSeconds : now' = now + d
    /\ pc' = "start"
    /\ UNCHANGED <<component, text, scores, result, matchVars, aiVars,
                   last_request_time, request_count, outcome, backoff,
                   previous_call, latest_call,
                   contactVars, fileVars, storeVars, pageVars>>

NextRequest ==
    \/ RateLimit
    \/ GenerateContentRaises
    \/ GenerateContentEmpty
    \/ GenerateContentAnswers
    \/ NextOperation

SpecRequest == InitRequest /\ [][NextRequest]_vars

(***************************************************************************)
(* Properties of the request path (specification SpecRequest).             *)
(***************************************************************************)
\* the calls of generate_content made so far by the running invocation
CallsMade == attempt + (IF outcome = "text" THEN 1 ELSE 0)

AtMostMaxRetriesCalls == CallsMade <= max_retries

StopsAtFirstText ==
    outcome = "text" => pc # "request" /\ response = Answer

NoneWhenAllFailed ==
    (pc = "returned" /\ outcome # "text") => response = None

\* C11 (as claimed): one invocation of _make_request calls the model at
\* most max_retries times, waits 2^attempt seconds after each failed
\* attempt except the last, stops at the first non-empty response and
\* returns None when all attempts failed.
C11_BackoffAfterEveryFailure ==
    /\ AtMostMaxRetriesCalls
    /\ StopsAtFirstText
    /\ NoneWhenAllFailed
    /\ (outcome \in Failures \cup {"empty"} /\ attempt < max_retries)
           => backoff = Pow2(attempt - 1)

\* C11 (amended): one invocation of _make_request calls the model at most
\* max_retries times, stops at the first non-empty response and returns
\* None when all attempts failed; it waits 2^attempt seconds after an
\* attempt that raised, except the last one, and does not wait after an
\* attempt whose response was empty.
C11_BackoffAfterException ==
    /\ AtMostMaxRetriesCalls
    /\ StopsAtFirstText
    /\ NoneWhenAllFailed
    /\ (outcome \in Failures /\ attempt < max_retries)
           => backoff = Pow2(attempt - 1)
    /\ (outcome \in Failures /\ attempt = max_retries) => backoff = 0
    /\ outcome = "empty" => backoff = 0

\* the second attempt raised and the loop slept 2 seconds before the third
C11_Witness ==
    /\ pc = "request" /\ attempt = 2
    /\ outcome \in Failures /\ backoff = 2

\* C12 (as claimed): a quota or authorization failure is not retried: after
\* it _make_request calls the model no more in that invocation, and it
\* reports the failure as an error kind distinct from a transient failure.
C12_QuotaFailureNotRetried ==
    outcome \in {"quota", "authorization"} =>
        /\ pc # "request"
        /\ response # None

\* C13 (as claimed): any two consecutive calls of the external model,
\* retry attempts included, are at least rate_limit_delay seconds apart.
C13_CallsSpaced ==
    previous_call # -1 => latest_call - previous_call >= rate_limit_delay

\* C17 (as claimed): an operation of a caller that uses the connected model
\* leaves the process-wide gemini_client object unchanged.
C17_NoSharedStateWritten ==
    [][model = "connected" =>
           /\ request_count' = request_count
           /\ last_request_time' = last_request_time]_vars

(***************************************************************************)
(* The document extractor: ResumeParser.parse_file and _parse_txt          *)
(* (specification SpecParse).  A file name is a sequence of characters, a  *)
(* file content a sequence of bytes (numbers 0..255), a decoded text a     *)
(* sequence of code points.  The size of a file is kept apart from its     *)
(* content: the content lists the bytes that decide how the file decodes,  *)
(* the size is what uploaded_file.size reports.  What pdfplumber and       *)
(* python-docx make of a content is not computed: they extract a text,     *)
(* extract nothing, or raise.                                              *)
(***************************************************************************)
\* ResumeParser.supported_formats
supported_formats ==
    { <<".", "p", "d", "f">>, <<".", "d", "o", "c", "x">>,
      <<".", "t", "x", "t">> }

\* the upload limit the application announces, in MiB
MaxFileMiB == 10

\* how many bytes a content has at most
MaxBytes == 3

\* str.lower() on the characters of the file names
LowerChar(c) ==
    CASE c = "P" -> "p" [] c = "D" -> "d" [] c = "F" -> "f"
      [] c = "T" -> "t" [] c = "X" -> "x" [] OTHER -> c

str_lower(s) == [i \in 1..Len(s) |-> LowerChar(s[i])]

\* PurePath(name).suffix: from the last dot on, unless that dot is the
\* first or the last character of the name
suffix(name) ==
    LET dots == {i \in 1..Len(name) : name[i] = "."}
        i == CHOOSE d \in dots : \A e \in dots : e <= d
    IN  IF dots = {} THEN <<>>
        ELSE IF 1 < i /\ i < Len(name) THEN SubSeq(name, i, Len(name))
        ELSE <<>>

FileNames ==
    { <<"r", ".", "p", "d", "f">>, <<"r", ".", "P", "D", "F">>,
      <<"r", ".", "d", "o", "c", "x">>, <<"r", ".", "t", "x", "t">>,
      <<"r", ".", "d", "o", "c">>, <<"r">>, <<".", "t", "x", "t">> }

\* uploaded_file.size, in MiB
FileSizes == {1, MaxFileMiB, MaxFileMiB + 1}

\* the bytes of the contents: a, space, newline, 0xC3 (the lead byte of a
\* 2-byte UTF-8 sequence), 0xA9 and 0x81 (continuation bytes; CP1252 has no
\* character for 0x81), 0xFF (never part of UTF-8)
Bytes == {97, 32, 10, 195, 169, 129, 255}

Contents == SeqsUpTo(Bytes, MaxBytes)

Undecodable == [ok |-> FALSE, text |-> <<>>]
Decoded(t) == [ok |-> TRUE, text |-> t]

\* bytes.decode('utf-8'), for 1-byte and 2-byte sequences
RECURSIVE decode_utf8(_)
decode_utf8(b) ==
    IF b = <<>> THEN Decoded(<<>>)
    ELSE IF Head(b) < 128
    THEN LET rest == decode_utf8(Tail(b))
         IN  IF rest.ok THEN Decoded(<<Head(b)>> \o rest.text)
             ELSE Undecodable
    ELSE IF /\ Head(b) \in 194..223
            /\ Len(b) >= 2 /\ b[2] \in 128..191
    THEN LET rest == decode_utf8(Tail(Tail(b)))
             point == (Head(b) - 192) * 64 + (b[2] - 128)
         IN  IF rest.ok THEN Decoded(<<point>> \o rest.text)
             ELSE Undecodable
    ELSE Undecodable

\* bytes.decode('latin-1'): every byte is the code point of its value
decode_latin1(b) == Decoded(b)

\* the bytes CP1252 leaves undefined
cp1252_undefined == {129, 141, 143, 144, 157}

\* bytes.decode('cp1252'), for the bytes below 0x80 and from 0xA0 on, which
\* it maps like Latin-1, and for the undefined ones
decode_cp1252(b) ==
    IF \E i \in 1..Len(b) : b[i] \in cp1252_undefined
    THEN Undecodable
    ELSE Decoded(b)

decode(b, encoding) ==
    CASE encoding = "utf-8" -> decode_utf8(b)
      [] encoding = "latin-1" -> decode_latin1(b)
      [] encoding = "cp1252" -> decode_cp1252(b)

\* the same encodings with Latin-1 first
encodings_latin_first == <<"latin-1", "utf-8", "cp1252">>

\* _parse_txt: encodings
encodings == <<"utf-8", "latin-1", "cp1252">>

\* the for loop of _parse_txt: the encodings tried, the last of them being
\* the first one that decodes the content (if any does)
EncodingsTried(b) ==
    LET good == {i \in 1..Len(encodings) : decode(b, encodings[i]).ok}
    IN  IF good = {} THEN encodings
        ELSE SubSeq(encodings, 1, CHOOSE i \in good : \A j \in good : i <= j)

\* the code points str.strip() removes
WhitespaceChars == {9, 10, 11, 12, 13, 28, 29, 30, 31, 32, 133, 160}

\* not text_content.strip()
IsBlank(t) == \A i \in 1..Len(t) : t[i] \in WhitespaceChars

Error(message) == [kind |-> "error", error |-> message]

\* _parse_txt(uploaded_file), once the file could be read
_parse_txt(file) ==
    LET used == EncodingsTried(file.content)
        text_content == decode(file.content, used[Len(used)])
        line_count ==
            Cardinality({i \in 1..Len(text_content.text) :
                             text_content.text[i] = 10}) + 1
    IN  IF ~text_content.ok
        THEN Error("Could not decode text file with any supported encoding")
        ELSE IF IsBlank(text_content.text)
        THEN Error("Text file appears to be empty")
        ELSE [kind |-> "parsed", raw_text |-> text_content.text,
              file_type |-> "txt", line_count |-> line_count,
              file_name |-> file.name]

\* the texts a format library hands out: page.extract_text() of a page,
\* paragraph.text of a paragraph, cell.text of a table cell (None or "",
\* whitespace only, or a letter)
MaxPages == 2
LibraryTexts == {<<>>, <<32>>, <<97>>}

\* str.strip()
RECURSIVE lstrip(_)
lstrip(t) ==
    IF t # <<>> /\ Head(t) \in WhitespaceChars THEN lstrip(Tail(t)) ELSE t

strip(t) == Reverse(lstrip(Reverse(lstrip(t))))

\* f"\n--- Page {page_num} ---\n"
PageMarker(page_num) ==
    <<10, 45, 45, 45, 32, 80, 97, 103, 101, 32, 48 + page_num,
      32, 45, 45, 45, 10>>

\* "\n--- Table Content ---\n"
TableMarker ==
    <<10, 45, 45, 45, 32, 84, 97, 98, 108, 101, 32, 67, 111, 110, 116, 101,
      110, 116, 32, 45, 45, 45, 10>>

\* what the format library finds in the file: it raises, or it hands out the
\* texts of the pages (PDF), of the paragraphs and of the cells of the one
\* row of a table (DOCX)
NoDocument == [raises |-> FALSE, texts |-> <<>>, cells |-> <<>>]

Extractions(file_extension) ==
    IF file_extension = <<".", "p", "d", "f">>
    THEN {[raises |-> TRUE, texts |-> <<>>, cells |-> <<>>]} \cup
         {[raises |-> FALSE, texts |-> t, cells |-> <<>>] :
             t \in SeqsUpTo(LibraryTexts, MaxPages)}
    ELSE IF file_extension = <<".", "d", "o", "c", "x">>
    THEN {[raises |-> TRUE, texts |-> <<>>, cells |-> <<>>]} \cup
         {[raises |-> FALSE, texts |-> t, cells |-> c] :
             t \in SeqsUpTo(LibraryTexts, MaxPages),
             c \in SeqsUpTo(LibraryTexts, 1)}
    ELSE {NoDocument}

\* the loop over pdf.pages: a page with text adds its marker, its text and
\* a newline
RECURSIVE PdfText(_, _)
PdfText(pages, page_num) ==
    IF page_num > Len(pages) THEN <<>>
    ELSE (IF pages[page_num] # <<>>
          THEN PageMarker(page_num) \o pages[page_num] \o <<10>>
          ELSE <<>>) \o PdfText(pages, page_num + 1)

\* _parse_pdf(uploaded_file)
_parse_pdf(file, extraction) ==
    LET text_content == PdfText(extraction.texts, 1)
    IN  IF extraction.raises THEN Error("PDF parsing failed")
        ELSE IF IsBlank(strip(text_content))
        THEN Error("No text could be extracted from PDF")
        ELSE [kind |-> "parsed", raw_text |-> text_content,
              file_type |-> "pdf", page_count |-> Len(extraction.texts),
              file_name |-> file.name]

\* the loop over doc.paragraphs: a paragraph with text adds it and a newline
RECURSIVE ParagraphText(_)
ParagraphText(paragraphs) ==
    IF paragraphs = <<>> THEN <<>>
    ELSE (IF strip(Head(paragraphs)) # <<>>
          THEN Head(paragraphs) \o <<10>> ELSE <<>>)
         \o ParagraphText(Tail(paragraphs))

\* " | ".join(row_text)
RECURSIVE JoinCells(_)
JoinCells(row_text) ==
    IF row_text = <<>> THEN <<>>
    ELSE IF Len(row_text) = 1 THEN Head(row_text)
    ELSE Head(row_text) \o <<32, 124, 32>> \o JoinCells(Tail(row_text))

\* the loop over the rows of the tables: the stripped cells with text
TableText(cells) ==
    LET row_text ==
            SelectSeq([i \in 1..Len(cells) |-> strip(cells[i])],
                      LAMBDA c : c # <<>>)
    IN  IF row_text # <<>> THEN JoinCells(row_text) \o <<10>> ELSE <<>>

\* _parse_docx(uploaded_file)
_parse_docx(file, extraction) ==
    LET paragraphs == ParagraphText(extraction.texts)
        table_content == TableText(extraction.cells)
        text_content ==
            IF table_content # <<>>
            THEN paragraphs \o TableMarker \o table_content
            ELSE paragraphs
    IN  IF extraction.raises THEN Error("DOCX parsing failed")
        ELSE IF IsBlank(strip(text_content))
        THEN Error("No text could be extracted from DOCX")
        ELSE [kind |-> "parsed", raw_text |-> text_content,
              file_type |-> "docx",
              paragraph_count |->
                  Cardinality({i \in 1..Len(extraction.texts) :
                                   strip(extraction.texts[i]) # <<>>}),
              table_count |-> IF extraction.cells = <<>> THEN 0 ELSE 1,
              file_name |-> file.name]

\* uploaded_file is None
NoUpload == [kind |-> "None"]

InitParse ==
    /\ component = "parse_file"
    /\ pc = "start"
    /\ \/ uploaded_file = NoUpload
       \/ \E name \in FileNames, size \in FileSizes, content \in Contents :
             \E document \in Extractions(str_lower(suffix(name))) :
                uploaded_file =
                    [kind |-> "file", name |-> name, size |-> size,
                     content |-> content, document |-> document]
    /\ parser = "none" /\ tried = <<>>
    /\ result = NoResult /\ second = NoResult
    /\ text = <<>> /\ scores = <<>>
    /\ resume_text = <<>> /\ job_description = <<>> /\ hash_seed = "none"
    /\ use_ai = FALSE /\ model = "none" /\ attempt = 0
    /\ response = NoResult /\ ai_analysis = NoResult
    /\ raw_text = <<>> /\ planted = NoResult
    /\ NoRequests /\ NoStore /\ NoPages

ParseUnchanged ==
    UNCHANGED <<component, text, scores, matchVars, aiVars, contactVars,
                requestVars, uploaded_file, storeVars, pageVars>>

\* parse_file(None)
ParseNoFile ==
    /\ component = "parse_file" /\ pc = "start"
    /\ uploaded_file = NoUpload
    /\ result' = Error("No file uploaded")
    /\ pc' = "done"
    /\ UNCHANGED <<parser, tried>>
    /\ ParseUnchanged

\* parse_file(uploaded_file) of a file whose extension has no parser
ParseUnsupported ==
    /\ component = "parse_file" /\ pc = "start"
    /\ uploaded_file # NoUpload
    /\ str_lower(suffix(uploaded_file.name)) \notin supported_formats
    /\ result' = Error("Unsupported file format")
    /\ pc' = "done"
    /\ UNCHANGED <<parser, tried>>
    /\ ParseUnchanged

\* parse_file(uploaded_file) of a PDF or DOCX file
ParseWithLibrary ==
    /\ component = "parse_file" /\ pc = "start"
    /\ uploaded_file # NoUpload
    /\ LET file_extension == str_lower(suffix(uploaded_file.name))
       IN  /\ file_extension \in
                 {<<".", "p", "d", "f">>, <<".", "d", "o", "c", "x">>}
           /\ IF file_extension = <<".", "p", "d", "f">>
              THEN /\ parser' = "_parse_pdf"
                   /\ result' = _parse_pdf(uploaded_file,
                                           uploaded_file.document)
              ELSE /\ parser' = "_parse_docx"
                   /\ result' = _parse_docx(uploaded_file,
                                            uploaded_file.document)
    /\ pc' = "done"
    /\ UNCHANGED tried
    /\ ParseUnchanged

\* parse_file(uploaded_file) of a TXT file that can be read
ParseTxt ==
    /\ component = "parse_file" /\ pc = "start"
    /\ uploaded_file # NoUpload
    /\ str_lower(suffix(uploaded_file.name)) = <<".", "t", "x", "t">>
    /\ parser' = "_parse_txt"
    /\ tried' = EncodingsTried(uploaded_file.content)
    /\ result' = _parse_txt(uploaded_file)
    /\ pc' = "done"
    /\ ParseUnchanged

\* parse_file(uploaded_file) of a TXT file whose seek or read raises
ParseTxtRaises ==
    /\ component = "parse_file" /\ pc = "start"
    /\ uploaded_file # NoUpload
    /\ str_lower(suffix(uploaded_file.name)) = <<".", "t", "x", "t">>
    /\ parser' = "_parse_txt"
    /\ tried' = <<>>
    /\ result' = Error("TXT parsing failed")
    /\ pc' = "done"
    /\ ParseUnchanged

NextParse ==
    \/ ParseNoFile
    \/ ParseUnsupported
    \/ ParseWithLibrary
    \/ ParseTxt
    \/ ParseTxtRaises

SpecParse == InitParse /\ [][NextParse]_vars

(***************************************************************************)
(* Properties of the document extractor (specification SpecParse).         *)
(***************************************************************************)
\* C14 (as claimed): a file whose extension is not pdf, docx or txt, and a
\* file larger than 10 MiB, is rejected with an error result before any
\* parser touches its content.
C14_RejectedBeforeParsing ==
    (/\ pc = "done" /\ uploaded_file # NoUpload
     /\ \/ str_lower(suffix(uploaded_file.name)) \notin supported_formats
        \/ uploaded_file.size > MaxFileMiB)
        => result.kind = "error" /\ parser = "none"

IsPrefix(s, t) == Len(s) <= Len(t) /\ s = SubSeq(t, 1, Len(s))

\* the TXT extraction ran and the file could be read
TxtRead ==
    /\ pc = "done" /\ parser = "_parse_txt"
    /\ result # Error("TXT parsing failed")

\* C15: TXT extraction tries UTF-8, Latin-1 and CP1252 in that order; each
\* later encoding is tried only when every earlier one failed; the first
\* one that decodes the bytes is used; when none decodes them the
\* extraction fails with a decode error.
C15_EncodingsInOrder ==
    TxtRead =>
        LET b == uploaded_file.content
            last == tried[Len(tried)]
        IN  /\ tried # <<>>
            /\ IsPrefix(tried, <<"utf-8", "latin-1", "cp1252">>)
            /\ \A i \in 1..(Len(tried) - 1) : ~decode(b, tried[i]).ok
            /\ decode(b, last).ok =>
                   \/ result = Error("Text file appears to be empty")
                   \/ /\ result.kind = "parsed"
                      /\ result.raw_text = decode(b, last).text
            /\ ~decode(b, last).ok =>
                   /\ Len(tried) = 3
                   /\ result = Error("Could not decode text file with any supported encoding")

\* a content that is not UTF-8 was decoded as Latin-1
C15_Witness ==
    /\ TxtRead
    /\ tried = <<"utf-8", "latin-1">>
    /\ result.kind = "parsed"
    /\ result.raw_text = uploaded_file.content

\* the text the parser extracted from the file is empty or only whitespace
ExtractedBlank ==
    /\ uploaded_file # NoUpload
    /\ CASE parser = "_parse_txt" ->
              /\ tried # <<>>
              /\ IsBlank(decode(uploaded_file.content, tried[Len(tried)]).text)
         [] parser \in {"_parse_pdf", "_parse_docx"} ->
              /\ ~uploaded_file.document.raises
              /\ \A i \in 1..Len(uploaded_file.document.texts) :
                    IsBlank(uploaded_file.document.texts[i])
              /\ \A i \in 1..Len(uploaded_file.document.cells) :
                    IsBlank(uploaded_file.document.cells[i])
         [] OTHER -> FALSE

\* C30 (as claimed): parse_file returns errors as values: the result is
\* either a record with an "error" key and no raw_text or a record with
\* non-blank raw_text and no "error" key, never both and never neither; a
\* file whose extracted text is empty or only whitespace yields the error
\* record.
C30_ErrorOrText ==
    (component = "parse_file" /\ pc = "done") =>
        /\ \/ /\ "error" \in DOMAIN result
              /\ "raw_text" \notin DOMAIN result
           \/ /\ "raw_text" \in DOMAIN result
              /\ ~IsBlank(result.raw_text)
              /\ "error" \notin DOMAIN result
        /\ ExtractedBlank => "error" \in DOMAIN result

(***************************************************************************)
(* Saving an analysis: AnalyticsManager.save_analysis and the save button  *)
(* of the job matcher page (specification SpecSave).  The database is the  *)
(* rows of its tables analysis_history and usage_stats; each of its calls  *)
(* (connect, execute, commit) can fail.                                    *)
(***************************************************************************)
\* how many times the page saves
MaxSaves == 2

\* where sqlite3 raises during one save, if it does
StoreHealths == {"ok", "connect_fails", "execute_fails", "commit_fails"}

\* the analysis_data the page builds from the computed match analysis
Analyses == [match_score : {0, 60, 100}, job_description_length : {21, 40}]

\* dict.get(key, default) on the page's analysis_data, which has the keys
\* job_match_analysis, match_score and job_description_length
Get(data, key, default) ==
    IF key \in DOMAIN data THEN data[key] ELSE default

\* json.dumps(analysis_data)
json_dumps(data) == <<"json", data>>

file_info == [file_name |-> "job_match_analysis", file_type |-> "analysis"]

\* the row save_analysis inserts
Row(data, info) ==
    [file_name |-> Get(info, "file_name", "Unknown"),
     file_type |-> Get(info, "file_type", "Unknown"),
     overall_score |-> Get(data, "overall_score", 0),
     word_count |-> Get(info, "word_count", 0),
     analysis_data |-> json_dumps(data)]

\* a save_analysis that lets the failure of the store through
save_analysis_raising(rows, data, info, health) ==
    IF health = "ok"
    THEN [returned |-> "True", rows |-> Append(rows, Row(data, info))]
    ELSE [returned |-> "raised", rows |-> rows]

\* AnalyticsManager.save_analysis(analysis_data, file_info): what it
\* returns and the rows of analysis_history afterwards
save_analysis(rows, data, info, health) ==
    IF health = "ok"
    THEN [returned |-> "True", rows |-> Append(rows, Row(data, info))]
    ELSE [returned |-> "False", rows |-> rows]

EmptyStore == [analysis_history |-> <<>>, usage_stats |-> <<>>]

InitSave ==
    /\ component = "save_analysis"
    /\ pc = "start"
    /\ analysis_data \in Analyses
    /\ store = EmptyStore
    /\ store_health = "ok"
    /\ saved = <<>>
    /\ result = NoResult /\ second = NoResult
    /\ text = <<>> /\ scores = <<>>
    /\ resume_text = <<>> /\ job_description = <<>> /\ hash_seed = "none"
    /\ use_ai = FALSE /\ model = "none" /\ attempt = 0
    /\ response = NoResult /\ ai_analysis = NoResult
    /\ raw_text = <<>> /\ planted = NoResult
    /\ NoRequests /\ NoFile /\ NoPages

\* the save button of _display_match_results: save_analysis, then the
\* message and, after a successful save, log_usage (which fails silently)
SaveAnalysis ==
    /\ component = "save_analysis" /\ pc = "start"
    /\ Len(saved) < MaxSaves
    /\ \E health \in StoreHealths, logged \in BOOLEAN :
          LET save == save_analysis(store.analysis_history, analysis_data,
                                    file_info, health)
              usage == IF save.returned = "True" /\ logged
                       THEN Append(store.usage_stats, "analysis_saved")
                       ELSE store.usage_stats
          IN  /\ store_health' = health
              /\ store' = [analysis_history |-> save.rows,
                           usage_stats |-> usage]
              /\ saved' = Append(saved, save.returned)
              /\ result' =
                    [kind |-> "message",
                     message |-> IF save.returned = "True"
                                 THEN "Match analysis saved successfully!"
                                 ELSE "Failed to save analysis"]
    /\ pc' = "saved"
    /\ UNCHANGED <<component, text, scores, matchVars, aiVars, contactVars,
                   requestVars, fileVars, analysis_data, pageVars>>

\* the page computes another analysis and shows its save button
AnotherAnalysis ==
    /\ component = "save_analysis" /\ pc = "saved"
    /\ Len(saved) < MaxSaves
    /\ analysis_data' \in Analyses
    /\ pc' = "start"
    /\ UNCHANGED <<component, text, scores, result, matchVars, aiVars,
                   contactVars, requestVars, fileVars, store, store_health,
                   saved, pageVars>>

NextSave ==
    \/ SaveAnalysis
    \/ AnotherAnalysis

SpecSave == InitSave /\ [][NextSave]_vars

(***************************************************************************)
(* Properties of saving (specification SpecSave).                          *)
(***************************************************************************)
\* C16: a save during which the store fails returns False and raises
\* nothing, adds no row, and leaves the computed analysis as it was.
C16_FailedSaveReturnsFalse ==
    [][pc' = "saved" =>
          /\ saved'[Len(saved')] \in {"True", "False"}
          /\ store_health' # "ok" =>
                /\ saved'[Len(saved')] = "False"
                /\ store'.analysis_history = store.analysis_history
          /\ analysis_data' = analysis_data]_vars

\* a save failed at commit and returned False; the analysis is still there
C16_Witness ==
    /\ pc = "saved"
    /\ store_health = "commit_fails"
    /\ saved = <<"False">>
    /\ analysis_data.match_score = 60
    /\ result.message = "Failed to save analysis"

(***************************************************************************)
(* The two overall scores as functions of the category scores              *)
(* (specification SpecOverall).  A run either takes a resume text through  *)
(* the utils analysis or the page's analysis, or hands one assignment of   *)
(* category scores to one of the two functions.  The page's function takes *)
(* any set of components; utils' analysis always supplies the six          *)
(* categories of scoring_categories.                                       *)
(***************************************************************************)
ScoreSamples == {0, 1, 50, 99, 100}

\* component_scores of the page: a score for each supplied component
ComponentScores ==
    UNION {[S -> ScoreSamples] : S \in SUBSET PageCats}

\* scores of utils: {"score": ..., "feedback": ...} for each category
CategoryResults ==
    {[c \in UtilsCats |-> [score |-> f[c], feedback |-> <<>>]] :
        f \in [UtilsCats -> ScoreSamples]}

InitOverall ==
    /\ \/ /\ component \in {"utils", "page"}
          /\ text \in Texts
          /\ scores = <<>>
       \/ /\ component = "calculate_overall_score"
          /\ text = CHOOSE t \in Texts : t.words = 0
          /\ scores \in ComponentScores
       \/ /\ component = "_calculate_overall_score"
          /\ text = CHOOSE t \in Texts : t.words = 0
          /\ scores \in CategoryResults
    /\ pc = "start"
    /\ result = NoResult
    /\ resume_text = <<>> /\ job_description = <<>>
    /\ hash_seed = "none" /\ second = NoResult
    /\ use_ai = FALSE /\ model = "none" /\ attempt = 0
    /\ response = NoResult /\ ai_analysis = NoResult
    /\ raw_text = <<>> /\ planted = NoResult
    /\ NoRequests /\ NoFile /\ NoStore /\ NoPages

\* the page's calculate_overall_score(component_scores)
CalculateOverallScorePage ==
    /\ component = "calculate_overall_score" /\ pc = "start"
    /\ result' = [kind |-> "overall",
                  overall_score |-> calculate_overall_score(scores),
                  entered |-> {scores[c] : c \in DOMAIN scores}]
    /\ pc' = "done"
    /\ UNCHANGED <<component, text, scores>>
    /\ UNCHANGED <<matchVars, aiVars, contactVars, restVars>>

\* utils ATSChecker._calculate_overall_score(scores)
CalculateOverallScoreUtils ==
    /\ component = "_calculate_overall_score" /\ pc = "start"
    /\ result' = [kind |-> "overall",
                  overall_score |-> _calculate_overall_score(scores),
                  entered |-> {ScoreOf(scores, c) : c \in UtilsCats}]
    /\ pc' = "done"
    /\ UNCHANGED <<component, text, scores>>
    /\ UNCHANGED <<matchVars, aiVars, contactVars, restVars>>

NextOverall ==
    \/ RuleBasedAnalysis
    \/ AnalyzePage
    \/ CalculateOverallScorePage
    \/ CalculateOverallScoreUtils

SpecOverall == InitOverall /\ [][NextOverall]_vars

\* the category scores that entered the overall score of the result
Entered ==
    CASE result.kind = "overall" -> result.entered
      [] result.kind = "ats" ->
            {result.categories[c].score : c \in UtilsCats}
      [] result.kind = "page" ->
            {result.categories[c].score : c \in PageCats}
      [] OTHER -> {}

Overall ==
    IF result.kind = "ats" THEN result.ats_score ELSE result.overall_score

\* C28: the overall score lies between the smallest and the largest
\* category score that entered the computation, for the page's
\* calculate_overall_score and for utils' _calculate_overall_score; so all
\* categories at 100 give 100 and all at 0 give 0.
C28_OverallBetweenMinAndMax ==
    (result.kind \in {"overall", "ats", "page"} /\ Entered # {}) =>
        /\ \E lo \in Entered : lo <= Overall
        /\ \E hi \in Entered : Overall <= hi
        /\ Entered = {100} => Overall = 100
        /\ Entered = {0} => Overall = 0

\* the page's function on three of its components, all at 100
C28_Witness ==
    /\ component = "calculate_overall_score" /\ pc = "done"
    /\ DOMAIN scores =
         {"format_compatibility", "readability", "contact_information"}
    /\ result.entered = {100}
    /\ result.overall_score = 100

(***************************************************************************)
(* The Resume Builder page (src/pages/4_📝_Resume_Builder.py): the entry    *)
(* lists of the session state (specification SpecEntries).  Every run of   *)
(* the page renders the lists and takes at most one button.                *)
(***************************************************************************)
\* how many entries a list is taken to
MaxEntries == 12

\* what the matcher, the adapter and the extractors hold where a
\* specification does not use them
NoAnalysis ==
    /\ text = <<>> /\ scores = <<>>
    /\ result = NoResult /\ second = NoResult
    /\ resume_text = <<>> /\ job_description = <<>> /\ hash_seed = "none"
    /\ use_ai = FALSE /\ model = "none" /\ attempt = 0
    /\ response = NoResult /\ ai_analysis = NoResult
    /\ raw_text = <<>> /\ planted = NoResult

\* {}
EmptyEntry == [key \in {} |-> ""]

\* 'experience_entries' not in st.session_state
NotInSessionState == <<"not in session_state">>

InitEntries ==
    /\ component = "resume_builder_page"
    /\ pc = "start"
    /\ experience_entries = NotInSessionState
    /\ education_entries = NotInSessionState
    /\ heap = <<>> /\ user_data = 0 /\ enhanced_data = 0
    /\ parsed_data = NoResult /\ threads = <<>>
    /\ NoAnalysis /\ NoRequests /\ NoFile /\ NoStore

EntriesUnchanged ==
    UNCHANGED <<component, text, scores, result, matchVars, aiVars,
                contactVars, requestVars, fileVars, storeVars, parsed_data,
                heap, user_data, enhanced_data, threads>>

\* the first run of the page: both lists are created with one entry
FirstRun ==
    /\ component = "resume_builder_page" /\ pc = "start"
    /\ experience_entries' = <<EmptyEntry>>
    /\ education_entries' = <<EmptyEntry>>
    /\ pc' = "rendered"
    /\ EntriesUnchanged

\* a Remove button that is always rendered
CanRemoveAny(entries) == Len(entries) > 0

\* if len(st.session_state.experience_entries) > 1: the Remove button is
\* rendered
CanRemove(entries) == Len(entries) > 1

\* "Add Experience": append({}) and st.rerun()
AddExperience ==
    /\ component = "resume_builder_page" /\ pc = "rendered"
    /\ Len(experience_entries) < MaxEntries
    /\ experience_entries' = Append(experience_entries, EmptyEntry)
    /\ UNCHANGED <<pc, education_entries>>
    /\ EntriesUnchanged

\* "Remove Last": pop() and st.rerun()
RemoveLastExperience ==
    /\ component = "resume_builder_page" /\ pc = "rendered"
    /\ CanRemove(experience_entries)
    /\ experience_entries' =
           SubSeq(experience_entries, 1, Len(experience_entries) - 1)
    /\ UNCHANGED <<pc, education_entries>>
    /\ EntriesUnchanged

\* "Add Education": append({}) and st.rerun()
AddEducation ==
    /\ component = "resume_builder_page" /\ pc = "rendered"
    /\ Len(education_entries) < MaxEntries
    /\ education_entries' = Append(education_entries, EmptyEntry)
    /\ UNCHANGED <<pc, experience_entries>>
    /\ EntriesUnchanged

\* "Remove Last Education": pop() and st.rerun()
RemoveLastEducation ==
    /\ component = "resume_builder_page" /\ pc = "rendered"
    /\ CanRemove(education_entries)
    /\ education_entries' =
           SubSeq(education_entries, 1, Len(education_entries) - 1)
    /\ UNCHANGED <<pc, experience_entries>>
    /\ EntriesUnchanged

NextEntries ==
    \/ FirstRun
    \/ AddExperience
    \/ RemoveLastExperience
    \/ AddEducation
    \/ RemoveLastEducation

SpecEntries == InitEntries /\ [][NextEntries]_vars

(***************************************************************************)
(* Properties of the entry lists (specification SpecEntries).              *)
(***************************************************************************)
\* a step changes the length of the list by one up, by one down from more
\* than one entry, or not at all
OneEntryAtATime(before, after) ==
    \/ Len(after) = Len(before)
    \/ Len(after) = Len(before) + 1
    \/ Len(after) = Len(before) - 1 /\ Len(before) > 1

\* C27: after any sequence of Add and Remove-Last actions the experience
\* list and the education list each hold at least one entry: Remove is
\* possible only while the list has more than one entry, Add grows the list
\* by exactly one and Remove shrinks it by exactly one.
C27_AtLeastOneEntry ==
    /\ [](pc = "rendered" =>
            Len(experience_entries) >= 1 /\ Len(education_entries) >= 1)
    /\ [][pc = "rendered" =>
            /\ OneEntryAtATime(experience_entries, experience_entries')
            /\ OneEntryAtATime(education_entries, education_entries')
            /\ AddExperience =>
                 Len(experience_entries') = Len(experience_entries) + 1
            /\ AddEducation =>
                 Len(education_entries') = Len(education_entries) + 1
            /\ RemoveLastExperience =>
                 Len(experience_entries') = Len(experience_entries) - 1
            /\ RemoveLastEducation =>
                 Len(education_entries') = Len(education_entries) - 1]_vars

\* both lists were grown and then brought back to one entry
C27_Witness ==
    /\ pc = "rendered"
    /\ Len(experience_entries) = 1 /\ Len(education_entries) = 2
    /\ ~CanRemove(experience_entries)

(***************************************************************************)
(* The resume builder (src/utils/resume_builder.py): generate_resume_content *)
(* on the dicts and lists of the caller (specification SpecBuilder).  heap *)
(* holds every dict and list under its identity; a dict entry or a list    *)
(* item that is itself a dict or a list holds the identity, as in Python.  *)
(***************************************************************************)
\* how many positions the resume has
MaxExperience == 2

ShortDescription == "Built APIs."
LongDescription ==
    "Built and operated the payment APIs used by four product teams."
Descriptions == {"", ShortDescription, LongDescription}

\* the experience entries, the skills and the summary the page compiles
\* into resume_data
ExperienceData ==
    SeqsUpTo({[title |-> "Engineer", company |-> "Acme", description |-> d] :
                 d \in Descriptions}, MaxExperience)
SkillsData == {<<>>, <<"python">>}
Summaries == {"", "Engineer with a record of delivery."}

\* the heap that holds resume_data: the dict, its two lists and one dict
\* per experience entry
HeapOf(summary, experience, skills) ==
    << [name |-> "Jo", summary |-> summary, experience |-> 2, skills |-> 3],
       [i \in 1..Len(experience) |-> 3 + i],
       skills >> \o experience

\* the value of the dict at identity d: what the caller reads through it
ValueOf(h, d) ==
    [name |-> h[d].name,
     summary |-> h[d].summary,
     experience |-> [i \in 1..Len(h[h[d].experience]) |->
                        h[h[h[d].experience][i]]],
     skills |-> h[h[d].skills]]

\* what gemini_client.improve_resume_content returns: the JSON object of
\* the reply or _fallback_improvement(); empty stands for {}
Improvements ==
    {[has_improved |-> TRUE, improved |-> "Led the payment platform."],
     [has_improved |-> FALSE, improved |-> ""]}

AIImprovements ==
    {[empty |-> TRUE, improved_summary |-> "", improved_experience |-> <<>>,
      additional_keywords |-> <<>>],
     [empty |-> FALSE,
      improved_summary |-> "AI improvement service temporarily unavailable",
      improved_experience |-> <<>>, additional_keywords |-> <<>>]} \cup
    {[empty |-> FALSE, improved_summary |-> s, improved_experience |-> e,
      additional_keywords |-> k] :
        s \in {"", "Engineer who led the payment platform."},
        e \in SeqsUpTo(Improvements, 1),
        k \in {<<>>, <<"sql">>, <<"python", "sql">>}}

\* the orders list(set(...)) can give to the elements of S
Orderings(S) ==
    {s \in [1..Cardinality(S) -> S] : \A x \in S : \E i \in DOMAIN s : s[i] = x}

\* user_data.copy(): a new dict with the same entries
dict_copy(h, d) == Append(h, h[d])

\* ResumeBuilder._merge_ai_improvements(user_data, ai_improvements); skills
\* is the order list(set(existing_skills + new_skills)) came out in
_merge_ai_improvements(h, d, ai_improvements, skills) ==
    LET copied == dict_copy(h, d)
        enhanced == Len(copied)
        summarised ==
            IF ai_improvements.improved_summary # ""
            THEN [copied EXCEPT ![enhanced].summary =
                      ai_improvements.improved_summary]
            ELSE copied
        experience == summarised[summarised[enhanced].experience]
        improved ==
            [a \in DOMAIN summarised |->
                IF \E i \in 1..Len(ai_improvements.improved_experience) :
                      i <= Len(experience) /\ experience[i] = a
                THEN LET i == CHOOSE j \in 1..Len(experience) :
                                  experience[j] = a
                         improvement == ai_improvements.improved_experience[i]
                     IN  [summarised[a] EXCEPT !.description =
                             IF improvement.has_improved
                             THEN improvement.improved ELSE @]
                ELSE summarised[a]]
        with_skills ==
            IF ai_improvements.additional_keywords # <<>>
            THEN [Append(improved, skills) EXCEPT ![enhanced].skills =
                      Len(improved) + 1]
            ELSE improved
    IN  [heap |-> with_skills, enhanced_data |-> enhanced]

\* str(n) of a number of one digit
Str(n) ==
    CASE n = 0 -> "0" [] n = 1 -> "1" [] n = 2 -> "2" [] n = 3 -> "3"
      [] n = 4 -> "4" [] n = 5 -> "5" [] n = 6 -> "6" [] n = 7 -> "7"
      [] n = 8 -> "8" [] n = 9 -> "9"

\* ", ".join(skills[:3])
RECURSIVE JoinSkills(_)
JoinSkills(skills) ==
    IF skills = <<>> THEN ""
    ELSE IF Len(skills) = 1 THEN Head(skills)
    ELSE Head(skills) \o ", " \o JoinSkills(Tail(skills))

\* ResumeBuilder._generate_template_summary(user_data)
_generate_template_summary(user) ==
    LET years_experience == Len(user.experience)
        primary_skills ==
            IF user.skills # <<>> THEN JoinSkills(Take(user.skills, 3))
            ELSE "various technologies"
    IN  "Experienced professional with " \o Str(years_experience)
        \o "+ years in " \o primary_skills \o ". Proven track record of "
        \o "delivering high-quality results and driving innovation."

\* ResumeBuilder._generate_template_experience(experience)
_generate_template_experience(experience) ==
    "Contributed to team success at " \o experience.company
    \o " in the role of " \o experience.title \o ". Responsible for key "
    \o "projects and maintaining high standards of work quality."

\* ResumeBuilder._template_based_generation(user_data)
_template_based_generation(h, d) ==
    LET copied == dict_copy(h, d)
        enhanced == Len(copied)
        summarised ==
            IF copied[enhanced].summary = ""
            THEN [copied EXCEPT ![enhanced].summary =
                      _generate_template_summary(ValueOf(h, d))]
            ELSE copied
        experience == summarised[summarised[enhanced].experience]
        described ==
            [a \in DOMAIN summarised |->
                IF /\ \E i \in 1..Len(experience) : experience[i] = a
                   /\ \/ summarised[a].description = ""
                      \/ Len(summarised[a].description) < 50
                THEN [summarised[a] EXCEPT !.description =
                         _generate_template_experience(summarised[a])]
                ELSE summarised[a]]
    IN  [heap |-> described, enhanced_data |-> enhanced]

InitBuilder ==
    /\ component = "generate_resume_content"
    /\ pc = "start"
    /\ \E summary \in Summaries, experience \in ExperienceData,
          skills \in SkillsData :
          heap = HeapOf(summary, experience, skills)
    /\ user_data = 1
    /\ enhanced_data = 0
    /\ experience_entries = <<>> /\ education_entries = <<>>
    /\ parsed_data = NoResult /\ threads = <<>>
    /\ text = <<>> /\ scores = <<>>
    /\ result = NoResult /\ second = NoResult
    /\ resume_text = <<>> /\ job_description = <<>> /\ hash_seed = "none"
    /\ use_ai = FALSE /\ model \in {"connected", "none"} /\ attempt = 0
    /\ response = NoResult /\ ai_analysis = NoResult
    /\ raw_text = <<>> /\ planted = NoResult
    /\ NoRequests /\ NoFile /\ NoStore

BuilderUnchanged ==
    UNCHANGED <<component, text, scores, result, matchVars, use_ai, model,
                attempt, response, contactVars, requestVars, fileVars,
                storeVars, parsed_data, user_data, experience_entries,
                education_entries, threads>>

\* ResumeBuilder.generate_resume_content(user_data, target_role) with the
\* AI connected: the improvements are merged, or, when the reply is {}, the
\* templates are used
GenerateWithAI ==
    /\ component = "generate_resume_content" /\ pc = "start"
    /\ model = "connected"
    /\ \E ai_improvements \in AIImprovements :
         /\ ai_analysis' = ai_improvements
         /\ IF ~ai_improvements.empty
            THEN \E skills \in Orderings(
                        Range(heap[heap[user_data].skills])
                        \cup Range(ai_improvements.additional_keywords)) :
                    LET returned == _merge_ai_improvements(
                                       heap, user_data, ai_improvements, skills)
                    IN  /\ heap' = returned.heap
                        /\ enhanced_data' = returned.enhanced_data
            ELSE LET returned == _template_based_generation(heap, user_data)
                 IN  /\ heap' = returned.heap
                     /\ enhanced_data' = returned.enhanced_data
    /\ pc' = "generated"
    /\ BuilderUnchanged

\* ResumeBuilder.generate_resume_content(user_data, target_role) without a
\* model
GenerateFromTemplates ==
    /\ component = "generate_resume_content" /\ pc = "start"
    /\ model = "none"
    /\ LET returned == _template_based_generation(heap, user_data)
       IN  /\ heap' = returned.heap
           /\ enhanced_data' = returned.enhanced_data
    /\ pc' = "generated"
    /\ UNCHANGED ai_analysis
    /\ BuilderUnchanged

NextBuilder ==
    \/ GenerateWithAI
    \/ GenerateFromTemplates

SpecBuilder == InitBuilder /\ [][NextBuilder]_vars

(***************************************************************************)
(* Properties of the resume builder (specification SpecBuilder).           *)
(***************************************************************************)
\* C26 (as claimed): generate_resume_content leaves its input unchanged: on
\* the AI-merge path and on the template path the caller's user_data, with
\* every experience entry's description and the skills list, has after the
\* call the value it had before.
C26_InputUnchanged ==
    [][pc' = "generated" =>
          ValueOf(heap', user_data') = ValueOf(heap, user_data)]_vars

(***************************************************************************)
(* The Job Matcher page (src/pages/2_🎯_Job_Matcher.py, main): one run of   *)
(* the script after the other (specification SpecPage).  The widgets hold  *)
(* the uploaded file, the job description, the checkbox; a run parses the  *)
(* upload, tests the gate of step 3 and, when the button was pressed,      *)
(* calls the matcher.                                                      *)
(***************************************************************************)
\* what the uploader can hold: nothing, or a file of one of its three types
PageFiles ==
    {NoUpload} \cup
    UNION {{[kind |-> "file", name |-> name, size |-> 1, content |-> content,
             document |-> document] :
                content \in {<<>>, <<32>>, <<97>>},
                document \in Extractions(str_lower(suffix(name)))} :
           name \in {<<"r", ".", "p", "d", "f">>,
                     <<"r", ".", "d", "o", "c", "x">>,
                     <<"r", ".", "t", "x", "t">>}}

\* the job descriptions of the text area, by their number of words
PageJobs ==
    {[i \in 1..n |-> "python"] :
        n \in {0, 1, MinJobWords, MinJobWords + 1}}

\* what resume_parser.parse_file(uploaded_file) can return for the file
ParseResults(file) ==
    LET file_extension == str_lower(suffix(file.name))
    IN  IF file_extension = <<".", "p", "d", "f">>
        THEN {_parse_pdf(file, file.document)}
        ELSE IF file_extension = <<".", "d", "o", "c", "x">>
        THEN {_parse_docx(file, file.document)}
        ELSE IF file_extension = <<".", "t", "x", "t">>
        THEN {_parse_txt(file), Error("TXT parsing failed")}
        ELSE {Error("Unsupported file format")}

InitPage ==
    /\ component = "job_matcher_page"
    /\ pc = "start"
    /\ uploaded_file \in PageFiles
    /\ job_description \in PageJobs
    /\ use_ai \in BOOLEAN
    /\ resume_text = <<>>
    /\ parsed_data = NoResult
    /\ result = NoResult
    /\ parser = "none" /\ tried = <<>>
    /\ text = <<>> /\ scores = <<>> /\ second = NoResult
    /\ hash_seed = "none" /\ model = "none" /\ attempt = 0
    /\ response = NoResult /\ ai_analysis = NoResult
    /\ raw_text = <<>> /\ planted = NoResult
    /\ threads = <<>>
    /\ NoRequests /\ NoStore /\ NoBuilder

PageUnchanged ==
    UNCHANGED <<component, text, scores, hash_seed, second, model, attempt,
                response, ai_analysis, contactVars, requestVars, parser,
                tried, storeVars, builderVars, threads>>

\* step 1 without an upload: resume_text stays ""
NothingUploaded ==
    /\ component = "job_matcher_page" /\ pc = "start"
    /\ uploaded_file = NoUpload
    /\ pc' = "step 2"
    /\ UNCHANGED <<uploaded_file, job_description, use_ai, resume_text,
                   parsed_data, result>>
    /\ PageUnchanged

\* step 1 with an upload: parse_file; an error is shown and main returns
ParseUpload ==
    /\ component = "job_matcher_page" /\ pc = "start"
    /\ uploaded_file # NoUpload
    /\ \E parsed \in ParseResults(uploaded_file) :
          /\ parsed_data' = parsed
          /\ IF "error" \in DOMAIN parsed
             THEN pc' = "returned" /\ UNCHANGED resume_text
             ELSE pc' = "step 2" /\ resume_text' = parsed.raw_text
    /\ UNCHANGED <<uploaded_file, job_description, use_ai, result>>
    /\ PageUnchanged

\* a gate that lets a job description of 20 words pass
ReadyForAnalysisFromTwenty(resume, job) ==
    resume # <<>> /\ job # <<>> /\ Len(job) >= MinJobWords

\* resume_text and job_description and len(job_description.split()) > 20
ReadyForAnalysis(resume, job) ==
    resume # <<>> /\ job # <<>> /\ Len(job) > MinJobWords

\* step 3 is rendered
EnterStep3 ==
    /\ component = "job_matcher_page" /\ pc = "step 2"
    /\ ReadyForAnalysis(resume_text, job_description)
    /\ pc' = "step 3"
    /\ UNCHANGED <<uploaded_file, job_description, use_ai, resume_text,
                   parsed_data, result>>
    /\ PageUnchanged

\* step 3 is not rendered: one of the alerts or the instructions
SkipStep3 ==
    /\ component = "job_matcher_page" /\ pc = "step 2"
    /\ ~ReadyForAnalysis(resume_text, job_description)
    /\ pc' = "done"
    /\ UNCHANGED <<uploaded_file, job_description, use_ai, resume_text,
                   parsed_data, result>>
    /\ PageUnchanged

\* the button was pressed: job_matcher.match_resume_to_job(resume_text,
\* job_description, use_ai=use_ai)
AnalyzeMatch ==
    /\ component = "job_matcher_page" /\ pc = "step 3"
    /\ result' = [kind |-> "match_resume_to_job",
                  resume_text |-> resume_text,
                  job_description |-> job_description,
                  use_ai |-> use_ai]
    /\ pc' = "matched"
    /\ UNCHANGED <<uploaded_file, job_description, use_ai, resume_text,
                   parsed_data>>
    /\ PageUnchanged

\* the button was not pressed
NoAnalysis3 ==
    /\ component = "job_matcher_page" /\ pc = "step 3"
    /\ pc' = "done"
    /\ UNCHANGED <<uploaded_file, job_description, use_ai, resume_text,
                   parsed_data, result>>
    /\ PageUnchanged

\* the user changes a widget: the script runs again from the top
Rerun ==
    /\ component = "job_matcher_page"
    /\ pc \in {"returned", "done", "matched"}
    /\ \/ /\ uploaded_file' \in PageFiles
          /\ UNCHANGED <<job_description, use_ai>>
       \/ /\ job_description' \in PageJobs
          /\ UNCHANGED <<uploaded_file, use_ai>>
       \/ /\ use_ai' = ~use_ai
          /\ UNCHANGED <<uploaded_file, job_description>>
    /\ resume_text' = <<>>
    /\ parsed_data' = NoResult
    /\ result' = NoResult
    /\ pc' = "start"
    /\ PageUnchanged

NextPage ==
    \/ NothingUploaded
    \/ ParseUpload
    \/ EnterStep3
    \/ SkipStep3
    \/ AnalyzeMatch
    \/ NoAnalysis3
    \/ Rerun

SpecPage == InitPage /\ [][NextPage]_vars

(***************************************************************************)
(* Properties of the Job Matcher page (specification SpecPage).            *)
(***************************************************************************)
\* the matcher was called in this run
MatchCalled == result.kind = "match_resume_to_job"

\* C23: the matcher is called only in a run where a resume was uploaded and
\* parsed without error (resume_text is the non-empty text of the upload)
\* and the job description has more than 20 words; after a parse error the
\* run ends without a call; with a shorter or missing job description the
\* matcher is never called.
C23_MatchOnlyWhenReady ==
    /\ [](/\ MatchCalled =>
               /\ uploaded_file # NoUpload
               /\ parsed_data.kind = "parsed"
               /\ resume_text = parsed_data.raw_text
               /\ resume_text # <<>>
               /\ result.resume_text = resume_text
               /\ result.job_description = job_description
               /\ Len(job_description) > MinJobWords
          /\ parsed_data.kind = "error" => pc = "returned" /\ ~MatchCalled
          /\ Len(job_description) <= MinJobWords => ~MatchCalled)
    /\ [][pc = "returned" => pc' = "start"]_vars

\* a run that called the matcher with a job description of 21 words
C23_Witness ==
    /\ pc = "matched" /\ MatchCalled
    /\ Len(job_description) = MinJobWords + 1
    /\ parsed_data.file_type = "pdf"

(***************************************************************************)
(* The _rate_limit wrapper entered by several threads at once              *)
(* (specification SpecThreads).  gemini_client is one object for the       *)
(* process, the wrapper takes no lock: every read and every write of       *)
(* last_request_time and request_count is a step of its own, and the       *)
(* clock moves between the steps.                                          *)
(***************************************************************************)
\* the threads that are inside the wrapper at the same time
ThreadIds == {1, 2}
MaxThreads == Cardinality(ThreadIds)

\* the clock is followed up to this second
LastSecond == ProcessStart + MaxThreads * rate_limit_delay + 1

InitThreads ==
    /\ component = "_rate_limit"
    /\ pc = "threads"
    /\ threads = [t \in ThreadIds |->
                     [pc |-> "start", time_since_last |-> 0, wake |-> 0,
                      request_count |-> 0]]
    /\ now = ProcessStart
    /\ last_request_time \in {0, ProcessStart - 1}
    /\ request_count = 0
    /\ outcome = "none" /\ backoff = 0
    /\ previous_call = -1 /\ latest_call = -1
    /\ text = <<>> /\ scores = <<>>
    /\ result = NoResult /\ second = NoResult
    /\ resume_text = <<>> /\ job_description = <<>> /\ hash_seed = "none"
    /\ use_ai = TRUE /\ model = "connected" /\ attempt = 0
    /\ response = NoResult /\ ai_analysis = NoResult
    /\ raw_text = <<>> /\ planted = NoResult
    /\ parsed_data = NoResult
    /\ NoFile /\ NoStore /\ NoBuilder

ThreadsUnchanged ==
    UNCHANGED <<component, pc, text, scores, result, matchVars, aiVars,
                contactVars, outcome, backoff, fileVars, storeVars,
                parsed_data, builderVars>>

\* current_time = time.time();
\* time_since_last = current_time - self.last_request_time
ReadLastRequestTime(t) ==
    /\ threads[t].pc = "start"
    /\ threads' = [threads EXCEPT ![t].pc = "check",
                                  ![t].time_since_last =
                                      now - last_request_time]
    /\ UNCHANGED <<now, last_request_time, request_count, previous_call,
                   latest_call>>
    /\ ThreadsUnchanged

\* if time_since_last < self.rate_limit_delay: time.sleep(sleep_time)
Sleep(t) ==
    /\ threads[t].pc = "check"
    /\ threads' =
         IF threads[t].time_since_last < rate_limit_delay
         THEN [threads EXCEPT ![t].pc = "sleeping",
                              ![t].wake = now + rate_limit_delay
                                              - threads[t].time_since_last]
         ELSE [threads EXCEPT ![t].pc = "write last_request_time"]
    /\ UNCHANGED <<now, last_request_time, request_count, previous_call,
                   latest_call>>
    /\ ThreadsUnchanged

\* time.sleep returns when the time is over
WakeUp(t) ==
    /\ threads[t].pc = "sleeping"
    /\ now >= threads[t].wake
    /\ threads' = [threads EXCEPT ![t].pc = "write last_request_time"]
    /\ UNCHANGED <<now, last_request_time, request_count, previous_call,
                   latest_call>>
    /\ ThreadsUnchanged

\* self.last_request_time = time.time()
WriteLastRequestTime(t) ==
    /\ threads[t].pc = "write last_request_time"
    /\ last_request_time' = now
    /\ threads' = [threads EXCEPT ![t].pc = "read request_count"]
    /\ UNCHANGED <<now, request_count, previous_call, latest_call>>
    /\ ThreadsUnchanged

\* self.request_count += 1: the read
ReadRequestCount(t) ==
    /\ threads[t].pc = "read request_count"
    /\ threads' = [threads EXCEPT ![t].pc = "write request_count",
                                  ![t].request_count = request_count]
    /\ UNCHANGED <<now, last_request_time, request_count, previous_call,
                   latest_call>>
    /\ ThreadsUnchanged

\* self.request_count += 1: the write
WriteRequestCount(t) ==
    /\ threads[t].pc = "write request_count"
    /\ request_count' = threads[t].request_count + 1
    /\ threads' = [threads EXCEPT ![t].pc = "call"]
    /\ UNCHANGED <<now, last_request_time, previous_call, latest_call>>
    /\ ThreadsUnchanged

\* return func(self, *args, **kwargs): the call of the external model
CallModel(t) ==
    /\ threads[t].pc = "call"
    /\ previous_call' = latest_call
    /\ latest_call' = now
    /\ threads' = [threads EXCEPT ![t].pc = "done"]
    /\ UNCHANGED <<now, last_request_time, request_count>>
    /\ ThreadsUnchanged

\* a second passes
Tick ==
    /\ component = "_rate_limit"
    /\ now < LastSecond
    /\ \E t \in ThreadIds : threads[t].pc # "done"
    /\ now' = now + 1
    /\ UNCHANGED <<threads, last_request_time, request_count, previous_call,
                   latest_call>>
    /\ ThreadsUnchanged

NextThreads ==
    \/ \E t \in ThreadIds :
          /\ component = "_rate_limit"
          /\ \/ ReadLastRequestTime(t)
             \/ Sleep(t)
             \/ WakeUp(t)
             \/ WriteLastRequestTime(t)
             \/ ReadRequestCount(t)
             \/ WriteRequestCount(t)
             \/ CallModel(t)
    \/ Tick

SpecThreads == InitThreads /\ [][NextThreads]_vars

(***************************************************************************)
(* Properties of the wrapper under threads (specification SpecThreads).    *)
(***************************************************************************)
AllDone == \A t \in ThreadIds : threads[t].pc = "done"

\* C25 (as claimed): with two threads inside the wrapper at the same time
\* their calls of the external model are at least rate_limit_delay apart
\* and request_count ends equal to the number of invocations.
C25_SpacedAndCounted ==
    /\ previous_call # -1 => latest_call - previous_call >= rate_limit_delay
    /\ AllDone => request_count = MaxThreads

====
